---- MODULE Spec2Model ----
(***************************************************************************)
(* The interactive query tool of the sales-data repository: the            *)
(* SalesDataQuery class (constructor, parseQuery, search) and the line     *)
(* handler that drives it.  Text is kept as TLA+ strings and handled       *)
(* character by character; JavaScript values keep their type tags so that  *)
(* the coercions of the code (truthiness, toString, parseFloat, typeof,    *)
(* property lookup through the prototype chain) are computed, not assumed. *)
(***************************************************************************)
EXTENDS Integers, Sequences, FiniteSets

\* The query tool: the engine's collection and list of known names, the input
\* mode, the position in the handler, its line, request and result, and the
\* text it prints.
VARIABLES customers, availableFields, mode, pc, line, queryParams, searchResults, output

\* The uploader: the time in hours, upload_progress.json, the batches in the
\* table, the state of the process, its arguments, and the locals of main and
\* uploadFile.
VARIABLES clock, progressFile, table, run, argv, file, startBatch, batchIndex,
          retries, retryCount, successCount, errorCount

\* What uploadFile has done so far in its current call: the batches it has
\* called the insert for, in the order of their first call, and the batches
\* whose insert returned without an error.
VARIABLES attempted, inserted

\* The AI question tool: the loaded data, the handlers of the lines entered,
\* the calls made to the AI, the answers printed, and the state of the
\* process.
VARIABLES analysisData, handlers, handed, printed, asking

queryVars == <<customers, availableFields, mode, pc, line, queryParams, searchResults, output>>

uploadVars == <<clock, progressFile, table, run, argv, file, startBatch, batchIndex,
                retries, retryCount, successCount, errorCount, attempted, inserted>>

askVars == <<analysisData, handlers, handed, printed, asking>>

vars == <<queryVars, uploadVars, askVars>>

(***************************************************************************)
(* Text.                                                                   *)
(***************************************************************************)

\* String.prototype.substring with 1-based inclusive positions: the characters
\* a..b of s, the empty text when there are none.
Sub(s, a, b) == IF a > b \/ a < 1 \/ b > Len(s) THEN "" ELSE SubSeq(s, a, b)

\* The i-th character of s, the empty text outside s.
CharAt(s, i) == Sub(s, i, i)

\* The text from position i to the end.
From(s, i) == Sub(s, i, Len(s))

UpperChars == "ABCDEFGHIJKLMNOPQRSTUVWXYZ"

LowerChars == "abcdefghijklmnopqrstuvwxyz"

DigitChars == "0123456789"

\* The printable ASCII characters in code-unit order, from the space (32) on.
\* Position 65 (code unit 96, the grave accent, which no text here uses)
\* holds a second underscore as a filler; IndexIn finds the first.
AsciiChars == " !\"#$%&'()*+,-./0123456789:;<=>?@ABCDEFGHIJKLMNOPQRSTUVWXYZ[\\]^__abcdefghijklmnopqrstuvwxyz{|}~"

RECURSIVE IndexFrom(_, _, _)
\* The first position from i on that holds character c in text t, 0 when none.
IndexFrom(t, c, i) ==
  IF i > Len(t) THEN 0 ELSE IF CharAt(t, i) = c THEN i ELSE IndexFrom(t, c, i + 1)

\* String.prototype.indexOf, 1-based: 0 when c is not in t.
IndexIn(t, c) == IndexFrom(t, c, 1)

\* The characters of text t, as a set.
CharSet(t) == {CharAt(t, i) : i \in 1..Len(t)}

Digits == CharSet(DigitChars)

IsDigit(c) == c \in Digits

DigitValues == [c \in Digits |-> IndexIn(DigitChars, c) - 1]

DigitVal(c) == DigitValues[c]

\* \w of the regular expressions: a letter, a digit or the underscore.
WordCharacters == CharSet(LowerChars) \cup CharSet(UpperChars) \cup Digits \cup {"_"}

IsWordChar(c) == c \in WordCharacters

\* \s of the regular expressions and of String.prototype.trim.
SpaceCharacters == {" ", "\t", "\n", "\r"}

IsSpace(c) == c \in SpaceCharacters

CodeUnits == [c \in CharSet(AsciiChars) |-> 31 + IndexIn(AsciiChars, c)]

\* The UTF-16 code unit of a printable ASCII character.
CharCode(c) == CodeUnits[c]

LowerCaseOf == [c \in CharSet(UpperChars) |-> CharAt(LowerChars, IndexIn(UpperChars, c))]

LowerChar(c) == IF c \in DOMAIN LowerCaseOf THEN LowerCaseOf[c] ELSE c

RECURSIVE ToLowerCase(_)
\* String.prototype.toLowerCase.
ToLowerCase(s) ==
  IF s = "" THEN "" ELSE LowerChar(CharAt(s, 1)) \o ToLowerCase(From(s, 2))

RECURSIVE TrimStart(_)
TrimStart(s) ==
  IF s # "" /\ IsSpace(CharAt(s, 1)) THEN TrimStart(From(s, 2)) ELSE s

RECURSIVE TrimEnd(_)
TrimEnd(s) ==
  IF s # "" /\ IsSpace(CharAt(s, Len(s))) THEN TrimEnd(Sub(s, 1, Len(s) - 1)) ELSE s

\* String.prototype.trim.
Trim(s) == TrimEnd(TrimStart(s))

\* Whether text t stands in s at position i.
MatchesAt(s, i, t) == i >= 1 /\ i + Len(t) - 1 <= Len(s) /\ Sub(s, i, i + Len(t) - 1) = t

\* String.prototype.includes.
Includes(s, t) == \E i \in 1..(Len(s) - Len(t) + 1) : MatchesAt(s, i, t)

StartsWith(s, t) == MatchesAt(s, 1, t)

EndsWith(s, t) == MatchesAt(s, Len(s) - Len(t) + 1, t)

RECURSIVE SplitOnAt(_, _, _)
\* String.prototype.split on a one-character separator, whose first occurrence
\* in s is at position i (0: none).
SplitOnAt(s, sep, i) ==
  IF i > 0
  THEN <<Sub(s, 1, i - 1)>> \o SplitOnAt(From(s, i + 1), sep, IndexIn(From(s, i + 1), sep))
  ELSE <<s>>

SplitOn(s, sep) == SplitOnAt(s, sep, IndexIn(s, sep))

\* String comparison of Array.prototype.sort without a comparator: by code units.
RECURSIVE StrLess(_, _)
StrLess(a, b) ==
  IF b = "" THEN FALSE
  ELSE IF a = "" THEN TRUE
  ELSE IF CharAt(a, 1) = CharAt(b, 1) THEN StrLess(From(a, 2), From(b, 2))
  ELSE CharCode(CharAt(a, 1)) < CharCode(CharAt(b, 1))

(***************************************************************************)
(* Numbers.  A JavaScript number is kept exactly as a decimal m / 10^d     *)
(* (k = "fin"), or as NaN or an infinity.  The decimals of the data and of *)
(* the query lines are short, so no rounding of the doubles is involved.   *)
(***************************************************************************)

RECURSIVE Pow10(_)
Pow10(d) == IF d = 0 THEN 1 ELSE 10 * Pow10(d - 1)

RECURSIVE Dec(_, _)
\* The number m / 10^d in its least terms, so that equal numbers are equal values.
Dec(m, d) ==
  IF d > 0 /\ m % 10 = 0 THEN Dec(m \div 10, d - 1) ELSE [k |-> "fin", m |-> m, d |-> d]

NaN == [k |-> "nan", m |-> 0, d |-> 0]

PosInfinity == [k |-> "inf", m |-> 1, d |-> 0]

NegInfinity == [k |-> "inf", m |-> -1, d |-> 0]

IsNaNNum(x) == x.k = "nan"

\* x < y on numbers the way JavaScript compares them (NaN compares false).
NumLess(x, y) ==
  /\ x.k # "nan" /\ y.k # "nan"
  /\ IF x.k = "inf" THEN x.m < 0 /\ y # x
     ELSE IF y.k = "inf" THEN y.m > 0
     ELSE x.m * Pow10(y.d) < y.m * Pow10(x.d)

\* x === y on numbers (NaN is equal to nothing).
NumEq(x, y) == x.k # "nan" /\ y.k # "nan" /\ x = y

NumLeq(x, y) == NumLess(x, y) \/ NumEq(x, y)

RECURSIVE DigitsToNat(_)
DigitsToNat(s) ==
  IF s = "" THEN 0
  ELSE 10 * DigitsToNat(Sub(s, 1, Len(s) - 1)) + DigitVal(CharAt(s, Len(s)))

RECURSIVE NatToDigits(_)
NatToDigits(n) ==
  IF n < 10 THEN CharAt(DigitChars, n + 1)
  ELSE NatToDigits(n \div 10) \o CharAt(DigitChars, (n % 10) + 1)

RECURSIVE PadZeros(_, _)
PadZeros(s, w) == IF Len(s) >= w THEN s ELSE PadZeros("0" \o s, w)

\* The digits of the natural number a / 10^d: its whole part and, when d > 0,
\* the point and its d decimals.
DecimalDigits(a, d) ==
  NatToDigits(a \div Pow10(d))
  \o (IF d = 0 THEN "" ELSE "." \o PadZeros(NatToDigits(a % Pow10(d)), d))

\* Number.prototype.toString (radix 10) for the magnitudes that occur here.
NumToString(x) ==
  IF x.k = "nan" THEN "NaN"
  ELSE IF x.k = "inf" THEN (IF x.m > 0 THEN "Infinity" ELSE "-Infinity")
  ELSE IF x.m < 0 THEN "-" \o DecimalDigits(-x.m, x.d)
  ELSE DecimalDigits(x.m, x.d)

RECURSIVE RunLen(_, _, _)
\* The length of the longest run of characters of the class `cls' at position i.
RunLen(s, i, cls) ==
  IF i <= Len(s) /\ CharAt(s, i) \in cls THEN 1 + RunLen(s, i + 1, cls) ELSE 0

\* -x
Negate(x) == IF x.k = "nan" THEN x ELSE [x EXCEPT !.m = -x.m]

\* The number with the mantissa digits `mant', nf of them decimals, and the
\* exponent digits `exp' ("" when there is no exponent), negative when eneg.
Scaled(mant, nf, exp, eneg) ==
  IF exp = "" THEN Dec(DigitsToNat(mant), nf)
  ELSE IF eneg THEN Dec(DigitsToNat(mant), nf + DigitsToNat(exp))
  ELSE Dec(DigitsToNat(mant) * Pow10(DigitsToNat(exp)), nf)

\* The digits of the exponent part that starts at position e of u (its letter),
\* "" when no exponent stands there; d is the position of its first digit.
ExponentDigits(u, e, d) ==
  IF CharAt(u, e) \in {"e", "E"} THEN Sub(u, d, d + RunLen(u, d, Digits) - 1) ELSE ""

\* An unsigned literal with ni whole digits and nf decimals: e is the position
\* after the mantissa.
ParseMantissa(u, ni, nf, e) ==
  IF ni + nf = 0 THEN NaN
  ELSE Scaled(Sub(u, 1, ni) \o Sub(u, ni + 2, ni + 1 + nf), nf,
              ExponentDigits(u, e, IF CharAt(u, e + 1) \in {"+", "-"} THEN e + 2 ELSE e + 1),
              CharAt(u, e + 1) = "-")

\* An unsigned literal with ni whole digits.
ParseFraction(u, ni) ==
  IF CharAt(u, ni + 1) = "."
  THEN ParseMantissa(u, ni, RunLen(u, ni + 2, Digits), ni + 2 + RunLen(u, ni + 2, Digits))
  ELSE ParseMantissa(u, ni, 0, ni + 1)

ParseUnsigned(u) ==
  IF StartsWith(u, "Infinity") THEN PosInfinity ELSE ParseFraction(u, RunLen(u, 1, Digits))

ParseSigned(t) ==
  IF StartsWith(t, "-") THEN Negate(ParseUnsigned(From(t, 2)))
  ELSE IF StartsWith(t, "+") THEN ParseUnsigned(From(t, 2))
  ELSE ParseUnsigned(t)

\* parseFloat: the longest prefix (after leading white space) that is a decimal
\* literal, NaN when there is none.
ParseFloat(s) == ParseSigned(TrimStart(s))

(***************************************************************************)
(* JavaScript values with their type tags.  An object is the sequence of   *)
(* its own <<key, value>> entries in insertion order.                      *)
(***************************************************************************)

JSString(s) == [t |-> "string", s |-> s, n |-> NaN, o |-> <<>>]

JSNumber(x) == [t |-> "number", s |-> "", n |-> x, o |-> <<>>]

JSInt(i) == JSNumber(Dec(i, 0))

JSBoolean(b) == [t |-> "boolean", s |-> IF b THEN "true" ELSE "false", n |-> NaN, o |-> <<>>]

JSNull == [t |-> "null", s |-> "", n |-> NaN, o |-> <<>>]

JSUndefined == [t |-> "undefined", s |-> "", n |-> NaN, o |-> <<>>]

JSObject(entries) == [t |-> "object", s |-> "", n |-> NaN, o |-> entries]

\* A built-in function, of which only the name shows (in its source text).
JSNative(name) == [t |-> "function", s |-> name, n |-> NaN, o |-> <<>>]

\* The typeof operator.
TypeOf(v) == IF v.t = "null" THEN "object" ELSE v.t

\* ToBoolean: what `if (v)', `!v', `v || d' and `a && b' test.
Truthy(v) ==
  CASE v.t = "string" -> v.s # ""
    [] v.t = "number" -> v.n.k # "nan" /\ v.n.m # 0
    [] v.t = "boolean" -> v.s = "true"
    [] v.t \in {"null", "undefined"} -> FALSE
    [] OTHER -> TRUE

\* v.toString() of a value that is neither null nor undefined.
JSToString(v) ==
  CASE v.t = "string" -> v.s
    [] v.t = "number" -> NumToString(v.n)
    [] v.t = "boolean" -> v.s
    [] v.t = "function" -> "function " \o v.s \o "() { [native code] }"
    [] OTHER -> "[object Object]"

NumberCharacters == Digits \cup {".", "+", "-", "e", "E"}

\* Number(u) of a trimmed text u, x being parseFloat(u): the whole text has to
\* be the literal.
StringToNumber(u, x) ==
  IF u = "" THEN Dec(0, 0)
  ELSE IF x.k = "inf" THEN (IF u \in {"Infinity", "+Infinity", "-Infinity"} THEN x ELSE NaN)
  ELSE IF \A i \in 1..Len(u) : CharAt(u, i) \in NumberCharacters THEN x
  ELSE NaN

\* ToNumber: the conversion isNaN and the relational operators apply.
ToNumber(v) ==
  CASE v.t = "number" -> v.n
    [] v.t = "null" -> Dec(0, 0)
    [] v.t = "boolean" -> IF v.s = "true" THEN Dec(1, 0) ELSE Dec(0, 0)
    [] v.t = "string" -> StringToNumber(Trim(v.s), ParseFloat(Trim(v.s)))
    [] OTHER -> NaN

\* Object.keys of an object value; a primitive without index properties has none.
Keys(v) == [i \in 1..Len(v.o) |-> v.o[i][1]]

HasOwn(v, key) == \E i \in 1..Len(v.o) : v.o[i][1] = key

\* The names every object inherits from Object.prototype.
ObjectPrototypeFunctions ==
  {"constructor", "toString", "toLocaleString", "valueOf", "hasOwnProperty",
   "isPrototypeOf", "propertyIsEnumerable", "__defineGetter__", "__defineSetter__",
   "__lookupGetter__", "__lookupSetter__"}

\* The constructor a value's prototype chain ends in.
ConstructorName(v) ==
  CASE v.t = "string" -> "String"
    [] v.t = "number" -> "Number"
    [] v.t = "boolean" -> "Boolean"
    [] v.t = "function" -> "Function"
    [] OTHER -> "Object"

RECURSIVE KeyIndex(_, _, _)
\* The position from i on of the own entry of v named key, 0 when none is.
KeyIndex(v, key, i) ==
  IF i > Len(v.o) THEN 0 ELSE IF v.o[i][1] = key THEN i ELSE KeyIndex(v, key, i + 1)

\* Whether key is an array index in its canonical form.
IsIndex(key) ==
  key # "" /\ RunLen(key, 1, Digits) = Len(key) /\ (Len(key) = 1 \/ CharAt(key, 1) # "0")

\* v[key] for a value v that is neither null nor undefined: an own property,
\* else the property inherited through the prototype chain, else undefined.
\* Of the properties of primitives, `length', the inherited functions of
\* Object.prototype and the characters of a string are kept.
Get(v, key) ==
  IF v.t = "object" /\ HasOwn(v, key) THEN v.o[KeyIndex(v, key, 1)][2]
  ELSE IF v.t = "string" /\ key = "length" THEN JSInt(Len(v.s))
  ELSE IF v.t = "string" /\ IsIndex(key)
  THEN (IF DigitsToNat(key) < Len(v.s) THEN JSString(CharAt(v.s, DigitsToNat(key) + 1))
        ELSE JSUndefined)
  ELSE IF key = "constructor" THEN JSNative(ConstructorName(v))
  ELSE IF key \in ObjectPrototypeFunctions THEN JSNative(key)
  ELSE IF key = "__proto__" /\ v.t = "object" THEN JSObject(<<>>)
  ELSE JSUndefined

(***************************************************************************)
(* The alias table and the helpers of SalesDataQuery.                      *)
(***************************************************************************)

\* The alias table, in the order of its entries.
FIELD_MAPPINGS ==
  << <<"name", "name">>,
     <<"tech client", "tech_client">>,
     <<"client type", "client_type_overwrite">>,
     <<"coverage", "coverage_name">>,
     <<"coverage normalized", "coverage_name_normalized">>,
     <<"coverage type", "coverage_client_type">>,
     <<"coverage subtype", "coverage_client_subtype">>,
     <<"branch", "branch_description">>,
     <<"sub branch", "sub_branch_description">>,
     <<"industry", "industry_description">>,
     <<"sub industry", "sub_industry_description">>,
     <<"sector", "sector">>,
     <<"employees", "employee_count">>,
     <<"it spend", "it_spend_estimate">>,
     <<"company size", "company_size">>,
     <<"city", "city">>,
     <<"state", "state">>,
     <<"location", "location">>,
     <<"revenue 2024", "revenue_2024">>,
     <<"revenue 2023", "revenue_2023">>,
     <<"revenue 2022", "revenue_2022">>,
     <<"growth", "growth">>,
     <<"data ai partner", "top_data_ai_business_partner">>,
     <<"it auto partner", "top_it_auto_app_mod_business_partner">>,
     <<"key bp", "key_bp">>,
     <<"products", "products">>,
     <<"has coverage", "has_coverage">>,
     <<"fields", "__show_fields">>,
     <<"list fields", "__show_fields">>,
     <<"show fields", "__show_fields">> >>

\* The alias table as the object it is: FIELD_MAPPINGS[part] reads through it.
FieldMappingsObject ==
  JSObject([i \in 1..Len(FIELD_MAPPINGS) |->
              <<FIELD_MAPPINGS[i][1], JSString(FIELD_MAPPINGS[i][2])>>])

\* `prefix ? `${prefix}.${key}` : key'
FieldName(prefix, key) == IF prefix # "" THEN prefix \o "." \o key ELSE key

RECURSIVE getAvailableFields(_, _, _)
\* The names of the entries of obj from the i-th on, in order, each followed by
\* the names of its nested object, dot-joined to it.
getAvailableFields(obj, prefix, i) ==
  IF i > Len(obj.o) THEN <<>>
  ELSE <<FieldName(prefix, obj.o[i][1])>>
       \o (IF Truthy(obj.o[i][2]) /\ TypeOf(obj.o[i][2]) = "object"
           THEN getAvailableFields(obj.o[i][2], FieldName(prefix, obj.o[i][1]), 1)
           ELSE <<>>)
       \o getAvailableFields(obj, prefix, i + 1)

\* this.availableFields, which the constructor leaves undefined for an empty
\* collection.
UndefinedFields == [defined |-> FALSE, list |-> <<>>]

DefinedFields(l) == [defined |-> TRUE, list |-> l]

\* The constructor's availableFields for the collection cs.
Constructor(cs) ==
  IF Len(cs) > 0 THEN DefinedFields(getAvailableFields(cs[1], "", 1)) ELSE UndefinedFields

cleanValue(value) ==
  IF ~Truthy(value) THEN "" ELSE ToLowerCase(Trim(JSToString(value)))

\* matchesValue on the cleaned texts.
MatchesClean(cleanVal, cleanSearch) ==
  IF cleanVal = cleanSearch THEN TRUE
  ELSE IF cleanSearch # "" /\ cleanVal # "" /\ Includes(cleanVal, cleanSearch)
  THEN ~(cleanVal = "johns creek" /\ cleanSearch = "atlanta")
  ELSE FALSE

matchesValue(value, searchTerm) ==
  IF value.t \in {"undefined", "null"} THEN FALSE
  ELSE MatchesClean(cleanValue(value), cleanValue(searchTerm))

RECURSIVE WalkKeys(_, _, _)
\* The loop of getNestedValue over the keys from the i-th on.
WalkKeys(value, keys, i) ==
  IF i > Len(keys) THEN value
  ELSE IF value.t \in {"null", "undefined"} THEN JSUndefined
  ELSE WalkKeys(Get(value, keys[i]), keys, i + 1)

getNestedValue(obj, path) == WalkKeys(obj, SplitOn(path, "."), 1)

(***************************************************************************)
(* parseQuery.                                                             *)
(***************************************************************************)

\* What parseQuery returns: the list-fields directive, or a request; when it
\* throws instead, the error.  criterion.operator is "" when there is none.
Directive == [kind |-> "directive", criteria |-> <<>>, hasSelected |-> FALSE, selectedFields |-> <<>>]

Request(criteria, selected) ==
  [kind |-> "request", criteria |-> criteria,
   hasSelected |-> Len(selected) > 0, selectedFields |-> selected]

ThrownTypeError == [kind |-> "TypeError", criteria |-> <<>>, hasSelected |-> FALSE, selectedFields |-> <<>>]

Criterion(field, value, operator) == [field |-> field, value |-> value, operator |-> operator]

WordDotCharacters == WordCharacters \cup {"."}

RECURSIVE NoneEmpty(_, _)
NoneEmpty(list, i) == i > Len(list) \/ (list[i] # "" /\ NoneEmpty(list, i + 1))

\* What \w+(?:\.\w+)* matches whole: word characters in dot-separated,
\* non-empty runs.
WordDotForm(s) ==
  /\ RunLen(s, 1, WordDotCharacters) = Len(s)
  /\ NoneEmpty(SplitOn(s, "."), 1)

\* s.replace(/"$/, '')
StripTrailingQuote(s) == IF EndsWith(s, "\"") THEN Sub(s, 1, Len(s) - 1) ELSE s

\* value.trim().replace(/^"|"$/g, '')
StripQuotes(s) ==
  IF StartsWith(s, "\"") THEN StripTrailingQuote(From(s, 2)) ELSE StripTrailingQuote(s)

SingleCriterion(field, value) == Request(<<Criterion(field, JSString(value), "")>>, <<>>)

\* ^(\w+(?:\.\w+)*):(.+)$ with the first colon at position i (0: no colon).
ColonMatchesAt(query, i) == i > 0 /\ WordDotForm(Sub(query, 1, i - 1)) /\ Len(query) > i

ColonMatches(query) == ColonMatchesAt(query, IndexIn(query, ":"))

ColonFormAt(query, i) ==
  SingleCriterion(Trim(Sub(query, 1, i - 1)), StripQuotes(Trim(From(query, i + 1))))

ColonForm(query) == ColonFormAt(query, IndexIn(query, ":"))

\* ^(\w+(?:\.\w+)*)\s*=\s*(.+)$ : the position where the equals sign has to
\* be, after the n characters of the attribute and the white space.
EqualsAfter(query, n) == n + RunLen(query, n + 1, SpaceCharacters) + 1

EqualsMatchesAt(query, n, e) ==
  WordDotForm(Sub(query, 1, n)) /\ CharAt(query, e) = "=" /\ Len(query) > e

EqualsMatches(query) ==
  EqualsMatchesAt(query, RunLen(query, 1, WordDotCharacters),
                  EqualsAfter(query, RunLen(query, 1, WordDotCharacters)))

EqualsForm(query) ==
  SingleCriterion(Trim(Sub(query, 1, RunLen(query, 1, WordDotCharacters))),
                  StripQuotes(Trim(From(query,
                     EqualsAfter(query, RunLen(query, 1, WordDotCharacters)) + 1))))

RECURSIVE FirstSpace(_, _)
\* The first position from i on that holds white space, 0 when none does.
FirstSpace(s, i) ==
  IF i > Len(s) THEN 0
  ELSE IF IsSpace(CharAt(s, i)) THEN i
  ELSE FirstSpace(s, i + 1)

RECURSIVE SplitSpacesAt(_, _)
\* query.split(/\s+/), the first white space of s being at position i (0: none).
SplitSpacesAt(s, i) ==
  IF i = 0 THEN <<s>>
  ELSE <<Sub(s, 1, i - 1)>>
       \o SplitSpacesAt(From(s, i + RunLen(s, i, SpaceCharacters)),
                        FirstSpace(From(s, i + RunLen(s, i, SpaceCharacters)), 1))

SplitSpaces(s) == SplitSpacesAt(s, FirstSpace(s, 1))

\* The conditions of the two-token form on the query, its lower-case text and
\* its tokens.
TwoTokenTest(query, lq, parts) ==
  /\ ~Includes(query, "\"") /\ ~Includes(query, "'")
  /\ ~Includes(lq, "select") /\ ~Includes(lq, "where")
  /\ Len(parts) = 2

TwoTokenMatches(query) == TwoTokenTest(query, ToLowerCase(query), SplitSpaces(query))

TwoTokenOf(parts) == SingleCriterion(Trim(parts[1]), Trim(parts[2]))

TwoTokenForm(query) == TwoTokenOf(SplitSpaces(query))

\* One natural-language template: the literal texts its head can be (in the
\* order the regular expression tries them), its group ("any" for (.*),
\* "money" for \$?([0-9,]+), "percent" for ([0-9.]+)%?), the literal texts
\* that can follow the group (none when the group runs to the end of the
\* line), and the attribute it stands for.
Pattern(heads, group, tails, field) ==
  [heads |-> heads, group |-> group, tails |-> tails, field |-> field]

In(verb) == <<verb \o "companies in ", verb \o "accounts in ">>

With(verb, what) == <<verb \o "companies with " \o what, verb \o "accounts with " \o what>>

BranchTails == <<" branch", " territory">>

TechTails == <<" tech clients", " tech companies">>

naturalLanguagePatterns ==
  << Pattern(In("show me all "), "any", BranchTails, "branch_description"),
     Pattern(In("find "), "any", BranchTails, "branch_description"),
     Pattern(In(""), "any", BranchTails, "branch_description"),
     Pattern(In("show me all "), "any", <<" coverage">>, "coverage_name"),
     Pattern(In("find "), "any", <<" coverage">>, "coverage_name"),
     Pattern(In(""), "any", <<" coverage">>, "coverage_name"),
     Pattern(With("show me ", "revenue over "), "money", <<>>, "revenue_threshold"),
     Pattern(With("find ", "revenue over "), "money", <<>>, "revenue_threshold"),
     Pattern(With("", "revenue over "), "money", <<>>, "revenue_threshold"),
     Pattern(With("show me ", "growth over "), "percent", <<>>, "growth_threshold"),
     Pattern(With("find ", "growth over "), "percent", <<>>, "growth_threshold"),
     Pattern(With("", "growth over "), "percent", <<>>, "growth_threshold"),
     Pattern(With("show me ", ""), "any", <<" product">>, "products"),
     Pattern(With("find ", ""), "any", <<" product">>, "products"),
     Pattern(With("", ""), "any", <<" product">>, "products"),
     Pattern(<<"who uses ">>, "any", <<>>, "products"),
     Pattern(<<"which companies use ", "which accounts use ">>, "any", <<>>, "products"),
     Pattern(<<"show me all ", "show me ">>, "any", TechTails, "tech_client"),
     Pattern(<<"find all ", "find ">>, "any", TechTails, "tech_client"),
     Pattern(In("show me "), "any", <<" industry">>, "industry_description"),
     Pattern(In("find "), "any", <<" industry">>, "industry_description"),
     Pattern(In(""), "any", <<" industry">>, "industry_description") >>

MoneyCharacters == Digits \cup {","}

PercentCharacters == Digits \cup {"."}

\* Whether one of the tails of pattern p stands at position e of the
\* lower-cased query lq (the patterns ignore case).
TailAt(lq, p, e) == \E k \in 1..Len(p.tails) : MatchesAt(lq, e, p.tails[k])

RECURSIVE LastTail(_, _, _, _)
\* The last position from e down to g where a tail stands, -1 when none does.
LastTail(lq, p, g, e) ==
  IF e < g THEN -1 ELSE IF TailAt(lq, p, e) THEN e ELSE LastTail(lq, p, g, e - 1)

\* (.*) is greedy: it ends before the last tail, which stands at position e.
GroupEndBefore(e) == IF e < 0 THEN -1 ELSE e - 1

\* ([\d,]+) and ([\d.]+) take the run of n characters at position g.
GroupEndOfRun(g, n) == IF n >= 1 THEN g + n - 1 ELSE -1

\* Where the group of pattern p ends when it starts at position g: its last
\* position, or -1 when the rest of the pattern cannot match from g.
GroupEnd(lq, p, g) ==
  CASE p.group = "any" /\ p.tails = <<>> -> Len(lq)
    [] p.group = "any" /\ p.tails # <<>> -> GroupEndBefore(LastTail(lq, p, g, Len(lq)))
    [] p.group = "money" -> GroupEndOfRun(g, RunLen(lq, g, MoneyCharacters))
    [] OTHER -> GroupEndOfRun(g, RunLen(lq, g, PercentCharacters))

\* \$? : the optional dollar sign at position g is taken when the amount
\* follows it.
AfterDollar(lq, p, g) ==
  IF p.group = "money" /\ CharAt(lq, g) = "$" /\ GroupEnd(lq, p, g + 1) >= 0
  THEN g + 1 ELSE g

GroupStartFrom(lq, p, g) == IF GroupEnd(lq, p, g) >= 0 THEN g ELSE 0

\* Where the group starts when head h of pattern p stands at position i, 0 when
\* the pattern does not match there with that head.
GroupStart(lq, p, i, h) ==
  IF MatchesAt(lq, i, p.heads[h])
  THEN GroupStartFrom(lq, p, AfterDollar(lq, p, i + Len(p.heads[h])))
  ELSE 0

RECURSIVE FirstHead(_, _, _, _)
\* The first head from h on with which pattern p matches at position i, 0 when
\* there is none.
FirstHead(lq, p, i, h) ==
  IF h > Len(p.heads) THEN 0
  ELSE IF GroupStart(lq, p, i, h) > 0 THEN h
  ELSE FirstHead(lq, p, i, h + 1)

RECURSIVE FirstStart(_, _, _)
\* The leftmost position from i on where pattern p matches, 0 when none.
FirstStart(lq, p, i) ==
  IF i > Len(lq) THEN 0
  ELSE IF FirstHead(lq, p, i, 1) > 0 THEN i
  ELSE FirstStart(lq, p, i + 1)

NoMatch == [found |-> FALSE, group |-> ""]

\* The match whose group starts at position g.
MatchWithGroup(query, lq, p, g) ==
  [found |-> TRUE, group |-> Sub(query, g, GroupEnd(lq, p, g))]

\* The match that starts at position i0 (0: there is none).
MatchAt(query, lq, p, i0) ==
  IF i0 = 0 THEN NoMatch
  ELSE MatchWithGroup(query, lq, p, GroupStart(lq, p, i0, FirstHead(lq, p, i0, 1)))

\* The patterns ignore case: they are matched on the lower-cased text lq.
MatchIn(query, lq, p) == MatchAt(query, lq, p, FirstStart(lq, p, 1))

\* query.match(pattern.regex): the leftmost match, with the first head that
\* matches there; found tells whether there is a match, group is match[1].
PatternMatch(query, p) == MatchIn(query, ToLowerCase(query), p)

RECURSIVE RemoveCommas(_)
\* match[1].replace(/,/g, '')
RemoveCommas(s) ==
  IF s = "" THEN ""
  ELSE (IF CharAt(s, 1) = "," THEN "" ELSE CharAt(s, 1)) \o RemoveCommas(From(s, 2))

\* The request a pattern yields whose group matched g.
RequestOf(p, g) ==
  IF p.field = "revenue_threshold"
  THEN Request(<<Criterion("revenue_2024", JSNumber(ParseFloat(RemoveCommas(g))), ">=")>>, <<>>)
  ELSE IF p.field = "growth_threshold"
  THEN Request(<<Criterion("growth", JSNumber(ParseFloat(g)), ">=")>>, <<>>)
  ELSE SingleCriterion(p.field, Trim(g))

\* The request a matching pattern yields.
PatternForm(query, p) == RequestOf(p, PatternMatch(query, p).group)

\* `match && match[1]'
Applies(m) == m.found /\ m.group # ""

PatternApplies(query, p) == Applies(PatternMatch(query, p))

RECURSIVE FirstPattern(_, _)
\* The first pattern from the k-th on that applies to the query, 0 when none
\* does: the loop over the patterns returns at the first one.
FirstPattern(query, k) ==
  IF k > Len(naturalLanguagePatterns) THEN 0
  ELSE IF PatternApplies(query, naturalLanguagePatterns[k]) THEN k
  ELSE FirstPattern(query, k + 1)

NaturalLanguageMatches(query) == FirstPattern(query, 1) > 0

NaturalLanguageForm(query) ==
  PatternForm(query, naturalLanguagePatterns[FirstPattern(query, 1)])

RECURSIVE CountQuotes(_)
CountQuotes(s) ==
  IF s = "" THEN 0
  ELSE (IF CharAt(s, 1) = "\"" THEN 1 ELSE 0) + CountQuotes(From(s, 2))

RECURSIVE SplitPointAt(_, _, _)
\* The first white-space run, from the one of n characters at position j on
\* (0: none), that an even number of double quotes follows (the lookahead of
\* the separator); 0 when there is none.
SplitPointAt(s, j, n) ==
  IF j = 0 THEN 0
  ELSE IF CountQuotes(From(s, j + n)) % 2 = 0 THEN j
  ELSE SplitPointAt(s, FirstSpace(s, j + n),
                    RunLen(s, FirstSpace(s, j + n), SpaceCharacters))

SplitPoint(s, i) == SplitPointAt(s, FirstSpace(s, i), RunLen(s, FirstSpace(s, i), SpaceCharacters))

RECURSIVE SplitOutsideAt(_, _)
\* query.split(/\s+(?=(?:[^"]*"[^"]*")*[^"]*$)/), the first separator of s
\* being at position j (0: none).
SplitOutsideAt(s, j) ==
  IF j = 0 THEN <<s>>
  ELSE <<Sub(s, 1, j - 1)>>
       \o SplitOutsideAt(From(s, j + RunLen(s, j, SpaceCharacters)),
                         SplitPoint(From(s, j + RunLen(s, j, SpaceCharacters)), 1))

SplitOutsideQuotes(s) == SplitOutsideAt(s, SplitPoint(s, 1))

\* Set.prototype.add on the insertion-ordered set of selected fields.
SetAdd(set, v) == IF \E k \in 1..Len(set) : set[k] = v THEN set ELSE Append(set, v)

\* The callbacks of find: a name equal to the token ("exact"), equal to it
\* when cleaned ("clean"), or either.
FieldTest(f, part, how) ==
  CASE how = "exact" -> f = part
    [] how = "clean" -> cleanValue(JSString(f)) = part
    [] OTHER -> cleanValue(JSString(f)) = part \/ f = part

RECURSIVE FindFrom(_, _, _, _)
FindFrom(list, part, how, k) ==
  IF k > Len(list) THEN 0
  ELSE IF FieldTest(list[k], part, how) THEN k
  ELSE FindFrom(list, part, how, k + 1)

\* Array.prototype.find over the known attribute names: the position of the
\* first name that passes the test, 0 when none does.
FindField(list, part, how) == FindFrom(list, part, how, 1)

RECURSIVE MappingFrom(_, _)
MappingFrom(part, k) ==
  IF k > Len(FIELD_MAPPINGS) THEN 0
  ELSE IF FIELD_MAPPINGS[k][1] = part THEN k
  ELSE MappingFrom(part, k + 1)

\* The position of the entry of FIELD_MAPPINGS whose name is the token, 0 when
\* there is none (the loop over Object.entries(FIELD_MAPPINGS)).
FindMapping(part) == MappingFrom(part, 1)

\* `value.startsWith('"') && value.endsWith('"') ? value.slice(1, -1) : value'
Unquote(value) ==
  IF value # "" /\ StartsWith(value, "\"") /\ EndsWith(value, "\"")
  THEN Sub(value, 2, Len(value) - 1) ELSE value

\* The value token after position i: parts[i + 1] without its quotes, "" when
\* there is none.
ValueToken(parts, i) == Unquote(IF i + 1 <= Len(parts) THEN parts[i + 1] ELSE "")

\* avail.list[k], "" when k is 0.
FoundField(avail, k) == IF k > 0 THEN avail.list[k] ELSE ""

\* The name among the known names for a criteria-mode token: the name equal to
\* the token, else the first name equal to it when cleaned, else "".
KnownField(avail, exact, clean) ==
  IF ~avail.defined THEN ""
  ELSE IF exact > 0 THEN avail.list[exact]
  ELSE FoundField(avail, clean)

\* The alias target at position m of FIELD_MAPPINGS, else the known name.
MappedOrKnown(avail, part, m) ==
  IF m > 0 THEN FIELD_MAPPINGS[m][2]
  ELSE KnownField(avail, FindField(avail.list, part, "exact"),
                  FindField(avail.list, part, "clean"))

\* The attribute a criteria-mode token names: the alias, else (when the engine
\* has its list of names) a known name; "" when it names none or no value
\* follows it.
CriteriaField(parts, i, avail, part) ==
  IF ValueToken(parts, i) = "" THEN ""
  ELSE MappedOrKnown(avail, part, FindMapping(part))

\* `matchingField || part'
FoundOr(avail, k, part) == IF k > 0 THEN avail.list[k] ELSE part

RECURSIVE SelectWhereLoop(_, _, _, _, _, _)
RECURSIVE SelectWhereStep(_, _, _, _, _, _, _, _, _)

\* One turn of the loop on the lower-cased token part, whose entry of
\* FIELD_MAPPINGS is mappedField and which names the attribute field in
\* criteria mode.
SelectWhereStep(parts, i, selectMode, criteria, selected, avail, part, mappedField, field) ==
  IF part \in {"fields", "list fields", "show fields"} THEN Directive
  ELSE IF selectMode /\ part = "where"
  THEN SelectWhereLoop(parts, i + 1, FALSE, criteria, selected, avail)
  ELSE IF selectMode /\ part = "from"
  THEN SelectWhereLoop(parts, i + 1, TRUE, criteria, selected, avail)
  ELSE IF selectMode /\ Truthy(mappedField)
  THEN SelectWhereLoop(parts, i + 1, TRUE, criteria, SetAdd(selected, mappedField), avail)
  ELSE IF selectMode /\ ~avail.defined THEN ThrownTypeError
  ELSE IF selectMode
  THEN SelectWhereLoop(parts, i + 1, TRUE, criteria,
          SetAdd(selected,
                 JSString(FoundOr(avail, FindField(avail.list, part, "either"), part))),
          avail)
  ELSE IF field # ""
  THEN SelectWhereLoop(parts, i + 2, FALSE,
                       Append(criteria, Criterion(field, JSString(ValueToken(parts, i)), "")),
                       selected, avail)
  ELSE SelectWhereLoop(parts, i + 1, FALSE, criteria, selected, avail)

\* The loop over the tokens from position i on.
SelectWhereLoop(parts, i, selectMode, criteria, selected, avail) ==
  IF i > Len(parts) THEN Request(criteria, selected)
  ELSE SelectWhereStep(parts, i, selectMode, criteria, selected, avail,
                       ToLowerCase(parts[i]),
                       Get(FieldMappingsObject, ToLowerCase(parts[i])),
                       IF selectMode THEN ""
                       ELSE CriteriaField(parts, i, avail, ToLowerCase(parts[i])))

\* The loop, started after the leading `select' when there is one.
SelectWhereFrom(parts, selectMode, avail) ==
  SelectWhereLoop(parts, IF selectMode THEN 2 ELSE 1, selectMode, <<>>, <<>>, avail)

SelectWhereTokens(parts, avail) ==
  SelectWhereFrom(parts, ToLowerCase(parts[1]) = "select", avail)

\* The select/where form, which takes every line the other forms leave.
SelectWhereForm(query, avail) == SelectWhereTokens(SplitOutsideQuotes(query), avail)

DirectiveMatches(query) == ToLowerCase(query) \in {"show fields", "fields", "list fields"}

\* A variant of parseQuery that tries the two-token form before the colon and
\* equals forms.
parseQueryTwoTokenFirst(query, avail) ==
  IF DirectiveMatches(query) THEN Directive
  ELSE IF TwoTokenMatches(query) THEN TwoTokenForm(query)
  ELSE IF ColonMatches(query) THEN ColonForm(query)
  ELSE IF EqualsMatches(query) THEN EqualsForm(query)
  ELSE IF NaturalLanguageMatches(query) THEN NaturalLanguageForm(query)
  ELSE SelectWhereForm(query, avail)

\* parseQuery(query) of an engine whose list of known names is avail.
parseQuery(query, avail) ==
  IF DirectiveMatches(query) THEN Directive
  ELSE IF ColonMatches(query) THEN ColonForm(query)
  ELSE IF EqualsMatches(query) THEN EqualsForm(query)
  ELSE IF TwoTokenMatches(query) THEN TwoTokenForm(query)
  ELSE IF NaturalLanguageMatches(query) THEN NaturalLanguageForm(query)
  ELSE SelectWhereForm(query, avail)

(***************************************************************************)
(* search.                                                                 *)
(***************************************************************************)

\* `a || ""'
OrEmpty(v) == IF Truthy(v) THEN v ELSE JSString("")

\* `original && original[key] ? original[key] : ""'
OriginalEntry(original, key) ==
  IF Truthy(original) /\ Truthy(Get(original, key)) THEN Get(original, key)
  ELSE JSString("")

\* `customer.original && customer.original[key] ? customer.original[key] : ""'
OriginalOf(customer, key) == OriginalEntry(Get(customer, "original"), key)

\* `value || {}'
OrEmptyObject(v) == IF Truthy(v) THEN v ELSE JSObject(<<>>)

\* parseFloat of any value: of its text.
ParseFloatOf(v) ==
  CASE v.t = "undefined" -> NaN
    [] v.t = "null" -> NaN
    [] OTHER -> ParseFloat(JSToString(v))

\* Object.keys(v): the own names of an object, the indices of a string.
KeysOf(v) ==
  IF v.t = "string" THEN [i \in 1..Len(v.s) |-> NatToDigits(i - 1)] ELSE Keys(v)

\* `typeof value === 'string' ? parseFloat(value) : value'
ParsedIfString(value) ==
  IF TypeOf(value) = "string" THEN JSNumber(ParseFloat(value.s)) ELSE value

\* The relational operators, on the numbers x and y the two sides convert to.
Relation(operator, x, y) ==
  IF IsNaNNum(x) \/ IsNaNNum(y) THEN FALSE
  ELSE CASE operator = ">" -> NumLess(y, x)
         [] operator = ">=" -> NumLeq(y, x)
         [] operator = "<" -> NumLess(x, y)
         [] OTHER -> NumLeq(x, y)

\* The comparison of numValue with criterionValue: isNaN and the relational
\* operators convert both sides to numbers, === does not.
Compare(operator, numValue, criterionValue) ==
  IF operator \in {">", ">=", "<", "<="}
  THEN Relation(operator, ToNumber(numValue), ToNumber(criterionValue))
  ELSE /\ ~IsNaNNum(ToNumber(numValue)) /\ ~IsNaNNum(ToNumber(criterionValue))
       /\ numValue.t = criterionValue.t
       /\ numValue.t \in {"number", "boolean", "null"}
       /\ numValue = criterionValue

\* The comparison a criterion with an operator applies to a stored value.
OperatorTest(value, criterion) ==
  Compare(criterion.operator, ParsedIfString(value), ParsedIfString(criterion.value))

\* `!isNaN(searchNum) && !isNaN(valueNum) && valueNum === searchNum'
SameNumber(valueNum, searchNum) ==
  ~IsNaNNum(searchNum) /\ ~IsNaNNum(valueNum) /\ NumEq(valueNum, searchNum)

\* A variant of NumericTest that compares the stored value as it is, without
\* parsing it: numeric text such as a growth of "12.50" then equals no number.
NumericTestUnparsed(value, criterion) ==
  /\ value.t = "number"
  /\ ~IsNaNNum(ParseFloatOf(criterion.value))
  /\ NumEq(value.n, ParseFloatOf(criterion.value))

\* The exact numeric match of the revenue, employee-count and growth attributes.
NumericTest(value, criterion) ==
  SameNumber(ParseFloatOf(value), ParseFloatOf(criterion.value))

\* A variant of CityHit without the exception for Atlanta: the substring rule
\* for every city.
CityHitBySubstring(c, searchValue) == Includes(c, searchValue)

\* Whether the lower-cased city text c answers the lower-cased searchValue:
\* equal to it for Atlanta, containing it for every other city.
CityHit(c, searchValue) ==
  IF searchValue = "atlanta" \/ searchValue = "\"atlanta\""
  THEN c = "atlanta"
  ELSE Includes(c, searchValue)

\* The city test on the two city values of a record; "TypeError" when
\* toLowerCase is called on what is no string.
CityVerdict(city, originalCity, searchValue) ==
  IF city.t # "string" THEN "TypeError"
  ELSE IF CityHit(ToLowerCase(city.s), searchValue) THEN "match"
  ELSE IF originalCity.t # "string" THEN "TypeError"
  ELSE IF CityHit(ToLowerCase(originalCity.s), searchValue) THEN "match"
  ELSE "miss"

CityTest(customer, criterion) ==
  IF criterion.value.t # "string" THEN "TypeError"
  ELSE CityVerdict(OrEmpty(Get(customer, "city")),
                   OriginalOf(customer, "Prmry City Name"),
                   ToLowerCase(criterion.value.s))

\* Whether one of the three values contains the cleaned term.
AnyIncludes(value, originalBranch, originalCoverage, term) ==
  \/ Includes(cleanValue(value), term)
  \/ Includes(cleanValue(originalBranch), term)
  \/ Includes(cleanValue(originalCoverage), term)

\* The test of the branch and coverage attributes.
BranchCoverageTest(customer, criterion) ==
  AnyIncludes(OrEmpty(Get(customer, criterion.field)),
              OriginalOf(customer, "BRNCH_DSCR 1H25"),
              OriginalOf(customer, "Cov Name 1H25"),
              cleanValue(criterion.value))

Verdict(b) == IF b THEN "match" ELSE "miss"

\* The name test: the name or the original name contains the cleaned term.
NameTest(customer, term) ==
  \/ Includes(cleanValue(OrEmpty(Get(customer, "name"))), term)
  \/ Includes(cleanValue(OriginalOf(customer, "URN NAME")), term)

\* The test of a dotted attribute, on the value the path leads to.
NestedTest(value, criterion) ==
  IF TypeOf(value) = "number"
  THEN ~IsNaNNum(ParseFloatOf(criterion.value)) /\ NumEq(value.n, ParseFloatOf(criterion.value))
  ELSE matchesValue(value, criterion.value)

\* `keys.some(product => this.matchesValue(product, criterion.value))'
SomeKey(keys, criterion) ==
  \E k \in 1..Len(keys) : matchesValue(JSString(keys[k]), criterion.value)

\* `${customer.city || ''}, ${customer.state || ''}`.trim()
LocationOf(customer) ==
  JSString(Trim(JSToString(OrEmpty(Get(customer, "city"))) \o ", "
                \o JSToString(OrEmpty(Get(customer, "state")))))

\* The tests on value, which is customer[criterion.field].
ValueTest(customer, criterion, value) ==
  IF criterion.field \in {"products", "clean_products"}
  THEN SomeKey(KeysOf(OrEmptyObject(value)), criterion)
  ELSE IF criterion.field \in {"revenue_2024", "revenue_2023", "revenue_2022", "employee_count"}
  THEN NumericTest(value, criterion)
  ELSE IF criterion.field = "growth" THEN NumericTest(value, criterion)
  ELSE IF criterion.field = "location" THEN matchesValue(LocationOf(customer), criterion.value)
  ELSE matchesValue(value, criterion.value)

\* One criterion on one record: "match", "miss", or the error thrown.
CriterionTest(customer, criterion) ==
  IF criterion.operator # ""
  THEN Verdict(OperatorTest(Get(customer, criterion.field), criterion))
  ELSE IF criterion.field = "name"
  THEN Verdict(NameTest(customer, cleanValue(criterion.value)))
  ELSE IF criterion.field = "city" THEN CityTest(customer, criterion)
  ELSE IF criterion.field \in {"branch_description", "coverage_name"}
  THEN Verdict(BranchCoverageTest(customer, criterion))
  ELSE IF Includes(criterion.field, ".")
  THEN Verdict(NestedTest(getNestedValue(customer, criterion.field), criterion))
  ELSE Verdict(ValueTest(customer, criterion, Get(customer, criterion.field)))

RECURSIVE Every(_, _, _)
\* The verdict v of criterion i, then the criteria after it: every stops at
\* the first one that does not match.
EveryAfter(customer, criteria, i, v) ==
  IF v = "match" THEN Every(customer, criteria, i + 1) ELSE v

\* A variant of Every that asks for some criterion from i on to match
\* (criteria.some instead of criteria.every).
Some(customer, criteria, i) ==
  Verdict(\E k \in i..Len(criteria) : CriterionTest(customer, criteria[k]) = "match")

\* criteria.every(...) from criterion i on.
Every(customer, criteria, i) ==
  IF i > Len(criteria) THEN "match"
  ELSE EveryAfter(customer, criteria, i, CriterionTest(customer, criteria[i]))

\* A variant of Keep that puts a matching record behind the records kept
\* after it.
KeepBehind(i, v, rest) ==
  IF v = "TypeError" \/ rest = <<0>> THEN <<0>>
  ELSE IF v = "match" THEN rest \o <<i>>
  ELSE rest

\* The record at index i, whose verdict is v, before the indices rest of the
\* records kept after it.
Keep(i, v, rest) ==
  IF v = "TypeError" \/ rest = <<0>> THEN <<0>>
  ELSE IF v = "match" THEN <<i>> \o rest
  ELSE rest

RECURSIVE Filter(_, _, _)
\* results.filter(...) from record i on: the indices of the records kept, or
\* <<0>> when a test throws.
Filter(cs, criteria, i) ==
  IF i > Len(cs) THEN <<>>
  ELSE Keep(i, Every(cs[i], criteria, 1), Filter(cs, criteria, i + 1))

\* The record reduced to the selected fields.
Project(customer, selectedFields) ==
  JSObject([k \in 1..Len(selectedFields) |->
              <<selectedFields[k].s,
                IF Includes(selectedFields[k].s, ".")
                THEN getNestedValue(customer, selectedFields[k].s)
                ELSE Get(customer, selectedFields[k].s)>>])

RECURSIVE Insert(_, _)
Insert(sorted, x) ==
  IF sorted = <<>> THEN <<x>>
  ELSE IF StrLess(x, sorted[1]) THEN <<x>> \o sorted
  ELSE <<sorted[1]>> \o Insert(Tail(sorted), x)

\* A variant of Sort that leaves the list in the order it has.
Unsorted(list) == list

RECURSIVE Sort(_)
\* Array.prototype.sort without a comparator (stable, by code units).
Sort(list) ==
  IF list = <<>> THEN <<>> ELSE Insert(Sort(SubSeq(list, 1, Len(list) - 1)), list[Len(list)])

\* What search returns: the field list of the directive (kind "show_fields"),
\* or a count with the records and, under a projection, the selected fields;
\* when it throws instead, the error.
FieldsResult(list) ==
  [kind |-> "show_fields", count |-> 0, hasFields |-> TRUE,
   fields |-> [k \in 1..Len(list) |-> JSString(list[k])], results |-> <<>>]

RecordsResult(results, hasFields, fields) ==
  [kind |-> "results", count |-> Len(results), hasFields |-> hasFields,
   fields |-> fields, results |-> results]

ThrownInSearch ==
  [kind |-> "TypeError", count |-> 0, hasFields |-> FALSE, fields |-> <<>>, results |-> <<>>]

\* The indices of the records search keeps: all of them without criteria.
Kept(params, cs) ==
  IF Len(params.criteria) > 0 THEN Filter(cs, params.criteria, 1)
  ELSE [i \in 1..Len(cs) |-> i]

\* What search returns with the records results: all of each record, or its
\* selected fields (field.includes throws on a field that is no string).
Selected(params, results) ==
  IF ~params.hasSelected THEN RecordsResult(results, FALSE, <<>>)
  ELSE IF Len(results) > 0 /\ \E k \in 1..Len(params.selectedFields) :
                                 params.selectedFields[k].t # "string"
  THEN ThrownInSearch
  ELSE RecordsResult([k \in 1..Len(results) |-> Project(results[k], params.selectedFields)],
                     TRUE, params.selectedFields)

SearchKept(params, cs, kept) ==
  IF kept = <<0>> THEN ThrownInSearch
  ELSE Selected(params, [k \in 1..Len(kept) |-> cs[kept[k]]])

\* search(queryParams) on the collection cs of an engine whose list of known
\* names is avail.
search(params, cs, avail) ==
  IF params.kind = "directive"
  THEN (IF avail.defined THEN FieldsResult(Sort(avail.list)) ELSE ThrownInSearch)
  ELSE SearchKept(params, cs, Kept(params, cs))

\* availableFields after search(queryParams): the directive sorts it in place.
FieldsAfterSearch(params, avail) ==
  IF params.kind = "directive" /\ avail.defined THEN DefinedFields(Sort(avail.list))
  ELSE avail

\* A variant of the collection after search, in which the records kept take the place
\* of the collection.
CustomersNarrowed(params, cs) ==
  IF params.kind = "directive" \/ Kept(params, cs) = <<0>> THEN cs
  ELSE [k \in 1..Len(Kept(params, cs)) |-> cs[Kept(params, cs)[k]]]

\* this.customers after search(queryParams): results starts as this very
\* array, but filter and map return new arrays and the projection builds new
\* objects, so neither the collection nor a record of it is written to.
CustomersAfterSearch(params, cs) == cs

(***************************************************************************)
(* generateFieldGuide and formatResults.  A text is kept as the sequence   *)
(* of its lines (the text split at its newlines).                          *)
(***************************************************************************)

\* String(v): the text a template literal puts for v, and the property key
\* v stands for.
TemplateText(v) ==
  CASE v.t = "undefined" -> "undefined"
    [] v.t = "null" -> "null"
    [] OTHER -> JSToString(v)

\* ${v || 'N/A'}
OrNA(v) == IF Truthy(v) THEN TemplateText(v) ELSE "N/A"

\* The table of getFieldDescription, an object literal.
descriptions ==
  JSObject(<< <<"name", JSString("Company name")>>,
     <<"tech_client", JSString("Technical client status")>>,
     <<"client_type_overwrite", JSString("Client type")>>,
     <<"coverage_name", JSString("Coverage area name")>>,
     <<"coverage_name_normalized", JSString("Normalized coverage name")>>,
     <<"coverage_client_type", JSString("Coverage client type")>>,
     <<"coverage_client_subtype", JSString("Coverage client subtype")>>,
     <<"branch_description", JSString("Branch description")>>,
     <<"sub_branch_description", JSString("Sub-branch description")>>,
     <<"sub_industry_description", JSString("Sub-industry description")>>,
     <<"industry_description", JSString("Industry description")>>,
     <<"sector", JSString("Business sector")>>,
     <<"employee_count", JSString("Number of employees")>>,
     <<"it_spend_estimate", JSString("Estimated IT spending")>>,
     <<"company_size", JSString("Company size category")>>,
     <<"city", JSString("City location")>>,
     <<"state", JSString("State location")>>,
     <<"revenue_2024", JSString("2024 revenue")>>,
     <<"revenue_2023", JSString("2023 revenue")>>,
     <<"revenue_2022", JSString("2022 revenue")>>,
     <<"growth", JSString("Year-over-year growth percentage")>>,
     <<"top_data_ai_business_partner", JSString("Top Data & AI Business Partner")>>,
     <<"top_it_auto_app_mod_business_partner",
       JSString("Top IT Automation & App Modernization Partner")>>,
     <<"key_bp", JSString("Key business partner")>>,
     <<"products", JSString("Products used by the company")>>,
     <<"clean_products", JSString("Cleaned product names")>>,
     <<"original", JSString("Original data fields before cleaning")>>,
     <<"URN NAME", JSString("Company name (original)")>>,
     <<"Tech Client", JSString("Technical client status (original)")>>,
     <<"Client Type Overwrite", JSString("Client type (original)")>>,
     <<"Cov Name 1H25", JSString("Coverage name for 1H 2025 (original)")>>,
     <<"BRNCH_DSCR 1H25", JSString("Branch description for 1H 2025 (original)")>>,
     <<"SUB_BRNCH_DSCR 1H25", JSString("Sub-branch description for 1H 2025 (original)")>>,
     <<"PRMRY ST PROV NAME", JSString("Primary state/province (original)")>>,
     <<"Prmry City Name", JSString("Primary city name (original)")>>,
     <<"TOTAL IBM REV 2024", JSString("2024 total IBM revenue (original)")>>,
     <<"TOTAL IBM REV 2023", JSString("2023 total IBM revenue (original)")>>,
     <<"TOTAL IBM REV 2022", JSString("2022 total IBM revenue (original)")>> >>)

\* descriptions[field] || 'No description available'
getFieldDescription(field) ==
  IF Truthy(Get(descriptions, field)) THEN TemplateText(Get(descriptions, field))
  ELSE "No description available"

formatFieldExample(field) ==
  IF field \in {"name", "URN NAME"} THEN field \o ":\"COMPANY NAME\""
  ELSE IF field \in {"city", "Prmry City Name"} THEN field \o ":Atlanta"
  ELSE IF field \in {"state", "PRMRY ST PROV NAME"} THEN field \o ":US-GA"
  ELSE IF field = "sector" THEN field \o ":Industrial"
  ELSE IF Includes(field, "revenue") \/ Includes(field, "REV") THEN field \o ":10000"
  ELSE IF field = "growth" THEN field \o ":5.02"
  ELSE IF Includes(field, "product") THEN field \o ":WebSphere"
  ELSE field \o ":\"value\""

\* The characters of field names in the order of the root collation (spaces,
\* punctuation, digits, letters), which ranks a letter apart from its case.
CollationOrder == " _-,;:!?.'\"()[]{}@*/\\&#%^+<=>|~$0123456789abcdefghijklmnopqrstuvwxyz"

RECURSIVE LocaleLess(_, _)
\* a.localeCompare(b) < 0 for texts that differ in more than their case.
LocaleLess(a, b) ==
  IF b = "" THEN FALSE
  ELSE IF a = "" THEN TRUE
  ELSE IF LowerChar(CharAt(a, 1)) = LowerChar(CharAt(b, 1)) THEN LocaleLess(From(a, 2), From(b, 2))
  ELSE IndexIn(CollationOrder, LowerChar(CharAt(a, 1))) < IndexIn(CollationOrder, LowerChar(CharAt(b, 1)))

\* One row of the guide, with the field name it is sorted by.
GuideRow(field, type, description, example) ==
  <<field, field \o " | " \o type \o " | " \o description \o " | " \o example>>

\* The row of the top-level entry e, none for the three nested attributes.
TopLevelRow(e) ==
  IF e[1] \in {"original", "products", "clean_products"} THEN <<>>
  ELSE <<GuideRow(e[1], e[2].t, getFieldDescription(e[1]), formatFieldExample(e[1]))>>

\* The row of the entry e of customer.original, none for an empty key.
OriginalRow(e) ==
  IF e[1] = "" THEN <<>>
  ELSE <<GuideRow("original." \o e[1], TypeOf(e[2]), getFieldDescription(e[1]),
                  formatFieldExample(e[1]))>>

RECURSIVE TopLevelRows(_, _)
TopLevelRows(customer, n) ==
  IF n = 0 THEN <<>> ELSE TopLevelRows(customer, n - 1) \o TopLevelRow(customer.o[n])

RECURSIVE OriginalRows(_, _)
OriginalRows(original, n) ==
  IF n = 0 THEN <<>> ELSE OriginalRows(original, n - 1) \o OriginalRow(original.o[n])

\* The fields array of generateFieldGuide before it is sorted.
GuideRows(customer) ==
  TopLevelRows(customer, Len(customer.o))
  \o (IF Truthy(Get(customer, "original"))
      THEN OriginalRows(Get(customer, "original"), Len(Get(customer, "original").o))
      ELSE <<>>)
  \o (IF Truthy(Get(customer, "products"))
      THEN <<GuideRow("products", "object", "Product usage information",
                      "products:MQ or products:\"WebSphere Application Server\"")>>
      ELSE <<>>)

RECURSIVE InsertRow(_, _)
InsertRow(sorted, row) ==
  IF sorted = <<>> THEN <<row>>
  ELSE IF LocaleLess(row[1], sorted[1][1]) THEN <<row>> \o sorted
  ELSE <<sorted[1]>> \o InsertRow(Tail(sorted), row)

RECURSIVE SortRows(_)
\* fields.sort((a, b) => a.field.localeCompare(b.field)), a stable sort.
SortRows(rows) ==
  IF rows = <<>> THEN <<>>
  ELSE InsertRow(SortRows(SubSeq(rows, 1, Len(rows) - 1)), rows[Len(rows)])

RowLines(rows) == [k \in 1..Len(rows) |-> rows[k][2]]

generateFieldGuide(cs) ==
  IF Len(cs) = 0 THEN <<"No data available to generate field guide.">>
  ELSE <<"FIELD GUIDE:", "", "FIELD NAME | TYPE | DESCRIPTION | EXAMPLE QUERY",
         "----------------------------------------------------------------">>
       \o RowLines(SortRows(GuideRows(cs[1])))

\* x + y
NumAdd(x, y) ==
  IF x.k = "nan" \/ y.k = "nan" THEN NaN
  ELSE IF x.k = "inf" THEN (IF y.k = "inf" /\ y.m # x.m THEN NaN ELSE x)
  ELSE IF y.k = "inf" THEN y
  ELSE IF x.d >= y.d THEN Dec(x.m + y.m * Pow10(x.d - y.d), x.d)
  ELSE Dec(x.m * Pow10(y.d - x.d) + y.m, y.d)

\* Number(v) || 0
NumberOrZero(v) == IF ToNumber(v).k = "nan" THEN Dec(0, 0) ELSE ToNumber(v)

RECURSIVE Grouped(_)
\* The digits of a whole number in groups of three.
Grouped(digits) ==
  IF Len(digits) <= 3 THEN digits
  ELSE Grouped(Sub(digits, 1, Len(digits) - 3)) \o "," \o From(digits, Len(digits) - 2)

\* a / 10^d in thousandths, rounded half away from zero.
Thousandths(a, d) ==
  IF d <= 3 THEN a * Pow10(3 - d) ELSE (a + 5 * Pow10(d - 4)) \div Pow10(d - 3)

LocaleDigits(x) ==
  Grouped(NatToDigits(x.m \div Pow10(x.d)))
  \o (IF x.d = 0 THEN "" ELSE "." \o PadZeros(NatToDigits(x.m % Pow10(x.d)), x.d))

\* Number.prototype.toLocaleString() in the en-US locale: grouped digits and
\* at most three decimals.  The infinity sign, no ASCII character, is written
\* by its code point.
ToLocaleString(x) ==
  IF x.k = "nan" THEN "NaN"
  ELSE IF x.k = "inf" THEN (IF x.m > 0 THEN "U+221E" ELSE "-U+221E")
  ELSE IF x.m < 0 THEN "-" \o LocaleDigits(Dec(Thousandths(-x.m, x.d), 3))
  ELSE LocaleDigits(Dec(Thousandths(x.m, x.d), 3))

RECURSIVE TotalRevenue(_, _, _)
\* acc.revenueYYYY after the first n results.
TotalRevenue(results, year, n) ==
  IF n = 0 THEN Dec(0, 0)
  ELSE NumAdd(TotalRevenue(results, year, n - 1), NumberOrZero(Get(results[n], year)))

\* The key a record is counted under in a breakdown: customer.sector as it
\* is, the two others with the placeholder.
BreakdownKey(customer, which) ==
  IF which = "sector" THEN TemplateText(Get(customer, which)) ELSE OrNA(Get(customer, which))

\* (acc[key] || 0) + 1 for a key acc does not own: 1, unless acc inherits a
\* function under that name, whose source text the 1 is appended to. The
\* assignment to __proto__ sets no property.
FirstCount(key) ==
  IF key = "__proto__" THEN <<>>
  ELSE IF key \in ObjectPrototypeFunctions
  THEN << <<key, JSString(TemplateText(Get(JSObject(<<>>), key)) \o "1")>> >>
  ELSE << <<key, JSInt(1)>> >>

\* v + 1 for the count v of an own key: a number, or the text of FirstCount.
PlusOne(v) ==
  IF v.t = "number" THEN JSNumber(NumAdd(v.n, Dec(1, 0))) ELSE JSString(v.s \o "1")

RECURSIVE Counted(_, _)
\* acc[key] = (acc[key] || 0) + 1 on the entries of a breakdown, in the
\* order in which their keys were set.
Counted(entries, key) ==
  IF entries = <<>> THEN FirstCount(key)
  ELSE IF entries[1][1] = key THEN << <<key, PlusOne(entries[1][2])>> >> \o Tail(entries)
  ELSE <<entries[1]>> \o Counted(Tail(entries), key)

HasIndexKey(entry) == IsIndex(entry[1])

HasNameKey(entry) == ~IsIndex(entry[1])

RECURSIVE InsertIndex(_, _)
InsertIndex(sorted, e) ==
  IF sorted = <<>> THEN <<e>>
  ELSE IF DigitsToNat(e[1]) < DigitsToNat(sorted[1][1]) THEN <<e>> \o sorted
  ELSE <<sorted[1]>> \o InsertIndex(Tail(sorted), e)

RECURSIVE IndexEntries(_)
\* Entries with array-index keys, in ascending order of the index.
IndexEntries(entries) ==
  IF entries = <<>> THEN <<>> ELSE InsertIndex(IndexEntries(Tail(entries)), entries[1])

\* Object.entries(acc): the array-index keys first, in ascending order, then
\* the other keys in the order in which they were set.
OwnEntries(entries) ==
  IndexEntries(SelectSeq(entries, HasIndexKey)) \o SelectSeq(entries, HasNameKey)

RECURSIVE Tally(_, _, _)
\* The breakdown `which' after the first n results.
Tally(results, which, n) ==
  IF n = 0 THEN <<>>
  ELSE Counted(Tally(results, which, n - 1), BreakdownKey(results[n], which))

RECURSIVE InsertByValue(_, _)
InsertByValue(sorted, e) ==
  IF sorted = <<>> THEN <<e>>
  ELSE IF NumLess(ToNumber(sorted[1][2]), ToNumber(e[2])) THEN <<e>> \o sorted
  ELSE <<sorted[1]>> \o InsertByValue(Tail(sorted), e)

RECURSIVE SortByValue(_)
\* Object.entries(o).sort((a, b) => b[1] - a[1]): descending by value, stable.
SortByValue(entries) ==
  IF entries = <<>> THEN <<>>
  ELSE InsertByValue(SortByValue(SubSeq(entries, 1, Len(entries) - 1)), entries[Len(entries)])

\* The lines of a breakdown; the sector lines put the placeholder for an
\* empty key.
BreakdownLines(entries, which) ==
  [k \in 1..Len(entries) |->
     (IF which = "sector" /\ entries[k][1] = "" THEN "N/A" ELSE entries[k][1])
     \o ": " \o TemplateText(entries[k][2]) \o " customers"]

Breakdown(results, which) ==
  BreakdownLines(SortByValue(OwnEntries(Tally(results, which, Len(results)))), which)

SummaryLines(results, count) ==
  <<"=== SUMMARY (" \o NatToDigits(count) \o " customers) ===", "", "Revenue Summary:",
    "2024: $" \o ToLocaleString(TotalRevenue(results, "revenue_2024", Len(results))),
    "2023: $" \o ToLocaleString(TotalRevenue(results, "revenue_2023", Len(results))),
    "2022: $" \o ToLocaleString(TotalRevenue(results, "revenue_2022", Len(results))),
    "", "Sector Breakdown:">>
  \o Breakdown(results, "sector") \o <<"", "Tech Client Status:">>
  \o Breakdown(results, "tech_client") \o <<"", "Industry Breakdown:">>
  \o Breakdown(results, "industry_description") \o <<"">>

ProductEntryLines(entries) ==
  [k \in 1..Len(entries) |->
     "  - " \o entries[k][1] \o ": " \o TemplateText(entries[k][2]) \o " instances"]

\* The products block of a detail entry.
ProductLines(products) ==
  IF Truthy(products) /\ Len(Keys(products)) > 0
  THEN <<"", "Products:">> \o ProductEntryLines(SortByValue(products.o))
  ELSE <<>>

GrowthText(growth) == IF Truthy(growth) THEN TemplateText(growth) \o "%" ELSE "N/A"

RevenueLine(customer, year) ==
  "  " \o From(year, 9) \o ": $" \o ToLocaleString(ToNumber(Get(customer, year)))

\* The detail entry of results[index - 1].
DetailLines(customer, index) ==
  <<"CUSTOMER " \o NatToDigits(index) \o ":",
    "Name: " \o TemplateText(Get(customer, "name")),
    "Location: " \o TemplateText(Get(customer, "city")) \o ", "
                 \o TemplateText(Get(customer, "state")),
    "Coverage: " \o OrNA(Get(customer, "coverage_name")),
    "Coverage Type: " \o OrNA(Get(customer, "coverage_client_type")),
    "Coverage Subtype: " \o OrNA(Get(customer, "coverage_client_subtype")),
    "Branch: " \o OrNA(Get(customer, "branch_description")),
    "Sub-Branch: " \o OrNA(Get(customer, "sub_branch_description")),
    "",
    "Tech Client Status: " \o OrNA(Get(customer, "tech_client")),
    "Industry: " \o OrNA(Get(customer, "industry_description")),
    "Sector: " \o OrNA(Get(customer, "sector")),
    "Revenue:",
    RevenueLine(customer, "revenue_2024"),
    RevenueLine(customer, "revenue_2023"),
    RevenueLine(customer, "revenue_2022"),
    "Growth: " \o GrowthText(Get(customer, "growth"))>>
  \o ProductLines(Get(customer, "products"))
  \o <<"", "-------------------", "">>

RECURSIVE DetailsUpTo(_, _)
\* results.forEach((customer, index) => ...) over the first n results.
DetailsUpTo(results, n) ==
  IF n = 0 THEN <<>> ELSE DetailsUpTo(results, n - 1) \o DetailLines(results[n], n)

formatResults(res, cs) ==
  IF res.kind = "show_fields" THEN generateFieldGuide(cs)
  ELSE IF res.count = 0 THEN <<"No customers found matching the criteria.">>
  ELSE SummaryLines(res.results, res.count) \o <<"=== CUSTOMER DETAILS ===", "">>
       \o DetailsUpTo(res.results, Len(res.results))

(***************************************************************************)
(* The loaded data and the lines typed at the prompt.                      *)
(***************************************************************************)

\* The record of the specification's scenario.
AcmeCorp ==
  JSObject(<< <<"name", JSString("Acme Corp")>>,
              <<"city", JSString("Atlanta")>>,
              <<"sector", JSString("Financial Services")>>,
              <<"revenue_2024", JSInt(50000)>>,
              <<"revenue_2023", JSInt(40000)>>,
              <<"products", JSObject(<< <<"mq", JSBoolean(TRUE)>> >>)>> >>)

\* A record as the converter writes it: no revenue, so growth is the text N/A;
\* the branch and the coverage are in the record and in its original row.
Zychos ==
  JSObject(<< <<"name", JSString("ZYCHOS")>>,
              <<"coverage_name", JSString("US 082 GA DSS Territory")>>,
              <<"branch_description", JSString("Southeast")>>,
              <<"sector", JSString("Industrial")>>,
              <<"city", JSString("Johns Creek")>>,
              <<"state", JSString("USGA")>>,
              <<"revenue_2024", JSInt(0)>>,
              <<"original", JSObject(<< <<"URN NAME", JSString("ZYCHOS, INC.")>>,
                                        <<"Prmry City Name", JSString("JOHNS CREEK")>>,
                                        <<"BRNCH_DSCR 1H25", JSString("Southeast")>>,
                                        <<"Cov Name 1H25",
                                          JSString("US 082 GA DSS Territory")>> >>)>>,
              <<"growth", JSString("N/A")>>,
              <<"products", JSObject(<<>>)>> >>)

\* A record whose city contains the word atlanta and whose revenue is null.
Delta ==
  JSObject(<< <<"name", JSString("Delta Air")>>,
              <<"city", JSString("North Atlanta")>>,
              <<"sector", JSString("Industrial")>>,
              <<"industry_description", JSString("Airlines")>>,
              <<"revenue_2024", JSNull>>,
              <<"growth", JSString("12.50")>> >>)

\* A record with other attributes, whose original city is ATLANTA, whose
\* industry is given by its code, and which has two attributes whose names
\* differ in case only.
Birch ==
  JSObject(<< <<"tech_client", JSString("Potential")>>,
              <<"name", JSString("Birch")>>,
              <<"city", JSString("Sandy Springs")>>,
              <<"industry_description", JSString("5411")>>,
              <<"employee_count", JSInt(250)>>,
              <<"revenue_2024", JSString("N/A")>>,
              <<"region", JSString("East")>>,
              <<"Region", JSString("South")>>,
              <<"original", JSObject(<< <<"Prmry City Name", JSString("ATLANTA")>> >>)>> >>)

RecordPool == {AcmeCorp, Zychos, Delta, Birch}

\* The largest number of records in a loaded collection.
MaxCustomers == 2

Collections == UNION {[1..n -> RecordPool] : n \in 0..MaxCustomers}

\* String(v) with null and undefined included.
TextOf(v) == IF v.t \in {"null", "undefined"} THEN v.t ELSE JSToString(v)

\* The line `A:<value of R.A>' for attribute A (dot-joined when nested) of R.
RoundTripLine(R, A) == A \o ":" \o TextOf(getNestedValue(R, A))

\* The line `products:<P>' for a product name P.
ProductLine(P) == "products:" \o P

RoundTripLines ==
  UNION {{RoundTripLine(R, getAvailableFields(R, "", 1)[k]) :
            k \in 1..Len(getAvailableFields(R, "", 1))} : R \in RecordPool}
  \cup UNION {{ProductLine(KeysOf(OrEmptyObject(Get(R, "products")))[k]) :
                 k \in 1..Len(KeysOf(OrEmptyObject(Get(R, "products"))))} : R \in RecordPool}

DirectiveLines == {"show fields", "Fields"}

ColonLines ==
  {"city:atlanta", "city:\"ATLANTA\"", "city:Marietta", "city:New York", "foo:bar",
   "original.zip:30301", "constructor:function",
   "branch_description:GA", "coverage_name:southeast", "name.length:9", "sector:x:y",
   "name:who uses mq"}

EqualsLines == {"name = ZYCHOS", "city=Atlanta", "city=New York", "growth = 12.5"}

TwoTokenLines == {"sector Industrial", "city ATLANTA", "name ", "show  fields"}

NaturalLanguageLines ==
  {"companies with revenue over 45000", "companies with revenue over 0",
   "find accounts with revenue over $50,000", "companies with growth over 10%",
   "who uses mq", "show me companies in US 082 GA DSS Territory coverage",
   "companies in Industrial sector", "find all Potential tech clients",
   "companies in GA coverage"}

SelectWhereLines ==
  {"", "hello there world", "select name city where city atlanta",
   "where city Atlanta name acme", "where sector industrial city creek",
   "select name where sector industrial name \"Delta Air\"",
   "select constructor", "select foo", "select NAME", "select fields",
   "select name products.mq", "select region",
   "where growth 12.5 sector industrial"}

ExitLines == {"exit", "EXIT"}

\* What is piped into the tool: one line with its newline.
PipedInputs == {"exit\n", "Exit\n", "show fields\n", "city:Atlanta\n", "select constructor\n"}

QueryLines ==
  (RoundTripLines \cup DirectiveLines \cup ColonLines \cup EqualsLines \cup TwoTokenLines
   \cup NaturalLanguageLines \cup SelectWhereLines) \ ExitLines

(***************************************************************************)
(* The session: the constructor, then the handler of the line event, one   *)
(* line at a time: parseQuery, search, formatResults, and the prompt       *)
(* again; an error thrown on the way is caught and reported.               *)
(***************************************************************************)

NoParams == [kind |-> "none", criteria |-> <<>>, hasSelected |-> FALSE, selectedFields |-> <<>>]

NoResults == [kind |-> "none", count |-> 0, hasFields |-> FALSE, fields |-> <<>>, results |-> <<>>]

\* No progress file.
NoProgress == [present |-> FALSE, lastBatch |-> 0, timestamp |-> 0]

\* The uploader before its first run.
UploaderOff ==
  /\ clock = 0
  /\ progressFile = NoProgress
  /\ table = {}
  /\ run = "off"
  /\ argv = <<>>
  /\ file = 0
  /\ startBatch = 0
  /\ batchIndex = 0
  /\ retries = 0
  /\ retryCount = 0
  /\ successCount = 0
  /\ errorCount = 0
  /\ attempted = <<>>
  /\ inserted = {}

\* The AI question tool before it is started.
AskToolOff ==
  /\ analysisData = <<>>
  /\ handlers = <<>>
  /\ handed = <<>>
  /\ printed = <<>>
  /\ asking = "off"

\* The query tool when another tool is the one that runs.
QueryToolOff ==
  /\ customers = <<>>
  /\ availableFields = Constructor(<<>>)
  /\ mode = "interactive"
  /\ pc = "off"
  /\ line = ""
  /\ queryParams = NoParams
  /\ searchResults = NoResults
  /\ output = <<>>

\* process.stdin.isTTY: a terminal gives the interactive prompt, anything else
\* is read to its end as one query.
Modes == {"interactive", "piped"}

Init ==
  /\ customers \in Collections
  /\ availableFields = Constructor(customers)
  /\ mode \in Modes
  /\ pc = IF mode = "piped" THEN "stdin" ELSE "prompt"
  /\ line = ""
  /\ queryParams = NoParams
  /\ searchResults = NoResults
  /\ output = <<>>
  /\ UploaderOff
  /\ AskToolOff

\* Where an error thrown by parseQuery, search or formatResults ends up: in
\* the catch clause of the line handler, or, thrown out of the 'end' listener
\* of the piped mode, as an uncaught exception that ends the process.
Thrown == IF mode = "piped" THEN "crashed" ELSE "caught"

\* A line arrives that is not the exit command.
ReadLine(q) ==
  /\ mode = "interactive"
  /\ pc = "prompt"
  /\ ToLowerCase(q) # "exit"
  /\ pc' = "parse"
  /\ line' = q
  /\ queryParams' = NoParams
  /\ searchResults' = NoResults
  /\ output' = <<>>
  /\ UNCHANGED <<customers, availableFields, mode>>
  /\ UNCHANGED <<uploadVars, askVars>>

\* The exit command ends the session.
Exit(q) ==
  /\ mode = "interactive"
  /\ pc = "prompt"
  /\ ToLowerCase(q) = "exit"
  /\ pc' = "exited"
  /\ line' = q
  /\ queryParams' = NoParams
  /\ searchResults' = NoResults
  /\ output' = <<"Goodbye!">>
  /\ UNCHANGED <<customers, availableFields, mode>>
  /\ UNCHANGED <<uploadVars, askVars>>

\* The piped stream has ended: const query = input.trim().
ReadStream(input) ==
  /\ mode = "piped"
  /\ pc = "stdin"
  /\ pc' = "parse"
  /\ line' = Trim(input)
  /\ UNCHANGED <<customers, availableFields, mode, queryParams, searchResults, output>>
  /\ UNCHANGED <<uploadVars, askVars>>

\* const queryParams = queryEngine.parseQuery(line)
Parse ==
  /\ pc = "parse"
  /\ queryParams' = parseQuery(line, availableFields)
  /\ pc' = IF queryParams'.kind = "TypeError" THEN Thrown ELSE "search"
  /\ UNCHANGED <<customers, availableFields, mode, line, searchResults, output>>
  /\ UNCHANGED <<uploadVars, askVars>>

\* const results = queryEngine.search(queryParams)
Search ==
  /\ pc = "search"
  /\ searchResults' = search(queryParams, customers, availableFields)
  /\ availableFields' = FieldsAfterSearch(queryParams, availableFields)
  /\ customers' = CustomersAfterSearch(queryParams, customers)
  /\ pc' = IF searchResults'.kind = "TypeError" THEN Thrown ELSE "format"
  /\ UNCHANGED <<mode, line, queryParams, output>>
  /\ UNCHANGED <<uploadVars, askVars>>

\* console.log('\n' + formatResults(results) + '\n'); in the piped mode the
\* text is written to the standard output and the process exits.
Format ==
  /\ pc = "format"
  /\ output' = formatResults(searchResults, customers)
  /\ pc' = IF mode = "piped" THEN "exited" ELSE "printed"
  /\ UNCHANGED <<customers, availableFields, mode, line, queryParams, searchResults>>
  /\ UNCHANGED <<uploadVars, askVars>>

\* console.error('Error executing query:', error.message)
Catch ==
  /\ pc = "caught"
  /\ output' = <<"Error executing query:">>
  /\ pc' = "printed"
  /\ UNCHANGED <<customers, availableFields, mode, line, queryParams, searchResults>>
  /\ UNCHANGED <<uploadVars, askVars>>

\* rl.prompt(): the handler returns, and its line, queryParams and results
\* are gone.
Prompt ==
  /\ pc = "printed"
  /\ pc' = "prompt"
  /\ line' = ""
  /\ queryParams' = NoParams
  /\ searchResults' = NoResults
  /\ output' = <<>>
  /\ UNCHANGED <<customers, availableFields, mode>>
  /\ UNCHANGED <<uploadVars, askVars>>

Next ==
  \/ \E q \in QueryLines : ReadLine(q)
  \/ \E q \in ExitLines : Exit(q)
  \/ \E input \in PipedInputs : ReadStream(input)
  \/ Parse
  \/ Search
  \/ Format
  \/ Catch
  \/ Prompt

Spec == Init /\ [][Next]_vars

(***************************************************************************)
(* The uploader (supabase_uploader.js): main reads upload_progress.json,   *)
(* then uploads each file of its arguments batch by batch.  Time is        *)
(* counted in hours; the table is kept as the set of the batches inserted. *)
(***************************************************************************)

batchSize == 100

maxRetries == 3

maxBatchRetries == 3

\* The CSV files at hand, with the number of their records.
CsvFiles == {"accounts.csv", "more.csv"}

RecordsIn(name) == IF name = "accounts.csv" THEN 250 ELSE 100

\* The largest number of files on one command line.
MaxFiles == 2

CommandLines == UNION {[1..n -> CsvFiles] : n \in 1..MaxFiles}

\* The hours that pass between two runs.
Waits == {12, 24}

\* The hour after which no time passes any more.
MaxClock == 36

\* chunkArray(cleanedRecords, batchSize).length for a file of n records.
BatchCount(n) == (n + batchSize - 1) \div batchSize

\* batches[b].length
BatchLength(n, b) == IF (b + 1) * batchSize <= n THEN batchSize ELSE n - b * batchSize

\* startBatch as main takes it from the progress file at the hour `now'.
StartBatchOf(progress, now) ==
  IF progress.present /\ progress.lastBatch >= 0 /\ now - progress.timestamp < 24
  THEN progress.lastBatch + 1
  ELSE 0

\* The progress uploadFile saves when batch i has failed for good.
SavedProgress(i, now) == [present |-> TRUE, lastBatch |-> i, timestamp |-> now]

\* The file uploadFile works on, and the number of its batches.
CurrentFile == argv[file]

Batches == BatchCount(RecordsIn(CurrentFile))

\* uploadFile is at the insert of batches[batchIndex].
AtInsert == run = "uploading" /\ batchIndex < Batches

UploadInit ==
  /\ UploaderOff
  /\ QueryToolOff
  /\ AskToolOff

\* Time passes while no upload runs.
Tick(hours) ==
  /\ run # "uploading"
  /\ clock + hours <= MaxClock
  /\ clock' = clock + hours
  /\ UNCHANGED <<progressFile, table, run, argv, file, startBatch, batchIndex,
                 retries, retryCount, successCount, errorCount, attempted, inserted>>
  /\ UNCHANGED <<queryVars, askVars>>

\* node supabase_uploader.js files...: main up to the first insert of
\* uploadFile(files[0], startBatch).
Main(files) ==
  /\ run # "uploading"
  /\ run' = "uploading"
  /\ argv' = files
  /\ file' = 1
  /\ startBatch' = StartBatchOf(progressFile, clock)
  /\ batchIndex' = startBatch'
  /\ retries' = 0
  /\ retryCount' = 0
  /\ successCount' = 0
  /\ errorCount' = 0
  /\ attempted' = <<>>
  /\ inserted' = {}
  /\ UNCHANGED <<clock, progressFile, table>>
  /\ UNCHANGED <<queryVars, askVars>>

\* The batches the insert has been called for, the call for batches[batchIndex]
\* included.
Called ==
  IF attempted # <<>> /\ attempted[Len(attempted)] = batchIndex THEN attempted
  ELSE Append(attempted, batchIndex)

\* InsertSucceeds counting a full batch for every batch.
InsertSucceedsFullBatch ==
  /\ AtInsert
  /\ table' = table \cup {<<CurrentFile, batchIndex>>}
  /\ successCount' = successCount + batchSize
  /\ batchIndex' = batchIndex + 1
  /\ retries' = 0
  /\ retryCount' = 0
  /\ attempted' = Called
  /\ inserted' = inserted \cup {batchIndex}
  /\ UNCHANGED <<clock, progressFile, run, argv, file, startBatch, errorCount>>
  /\ UNCHANGED <<queryVars, askVars>>

\* The insert returns without an error: the batch is in the table, and the
\* loop goes on to the next batch.
InsertSucceeds ==
  /\ AtInsert
  /\ attempted' = Called
  /\ inserted' = inserted \cup {batchIndex}
  /\ table' = table \cup {<<CurrentFile, batchIndex>>}
  /\ successCount' = successCount + BatchLength(RecordsIn(CurrentFile), batchIndex)
  /\ batchIndex' = batchIndex + 1
  /\ retries' = 0
  /\ retryCount' = 0
  /\ UNCHANGED <<clock, progressFile, run, argv, file, startBatch, errorCount>>
  /\ UNCHANGED <<queryVars, askVars>>

\* AttemptFailed with one more attempt at the batch allowed.
AttemptFailedOnceMore ==
  IF retries < maxBatchRetries
  THEN /\ retries' = retries + 1
       /\ retryCount' = 0
       /\ UNCHANGED <<progressFile, run, errorCount>>
  ELSE /\ errorCount' = errorCount + BatchLength(RecordsIn(CurrentFile), batchIndex)
       /\ progressFile' = SavedProgress(batchIndex, clock)
       /\ run' = "failed"
       /\ UNCHANGED <<retries, retryCount>>

\* An attempt at the batch has failed: another attempt after five seconds,
\* or, after the last one, the progress is saved and the process exits with
\* status 1.
AttemptFailed ==
  IF retries < maxBatchRetries - 1
  THEN /\ retries' = retries + 1
       /\ retryCount' = 0
       /\ UNCHANGED <<progressFile, run, errorCount>>
  ELSE /\ errorCount' = errorCount + BatchLength(RecordsIn(CurrentFile), batchIndex)
       /\ progressFile' = SavedProgress(batchIndex, clock)
       /\ run' = "failed"
       /\ UNCHANGED <<retries, retryCount>>

\* The insert returns an error object.
InsertReturnsError ==
  /\ AtInsert
  /\ AttemptFailed
  /\ attempted' = Called
  /\ UNCHANGED inserted
  /\ UNCHANGED <<clock, table, argv, file, startBatch, batchIndex, successCount>>
  /\ UNCHANGED <<queryVars, askVars>>

\* The insert throws (a network error), whether or not the request reached
\* the table: retryOperation calls it again, maxRetries times at most, then
\* rethrows to the catch clause of the batch loop.
InsertThrows(applied) ==
  /\ AtInsert
  /\ attempted' = Called
  /\ UNCHANGED inserted
  /\ table' = IF applied THEN table \cup {<<CurrentFile, batchIndex>>} ELSE table
  /\ IF retryCount < maxRetries
     THEN /\ retryCount' = retryCount + 1
          /\ UNCHANGED <<progressFile, run, retries, errorCount>>
     ELSE AttemptFailed
  /\ UNCHANGED <<clock, argv, file, startBatch, batchIndex, successCount>>
  /\ UNCHANGED <<queryVars, askVars>>

\* The batch loop is over: uploadFile returns its counts, and main goes on
\* to the next file with the same startBatch, or, after the last file, ends.
Return ==
  /\ run = "uploading"
  /\ batchIndex >= Batches
  /\ IF file < Len(argv)
     THEN /\ file' = file + 1
          /\ batchIndex' = startBatch
          /\ successCount' = 0
          /\ errorCount' = 0
          /\ attempted' = <<>>
          /\ inserted' = {}
          /\ UNCHANGED run
     ELSE /\ run' = "done"
          /\ UNCHANGED <<file, batchIndex, successCount, errorCount, attempted, inserted>>
  /\ UNCHANGED <<clock, progressFile, table, argv, startBatch, retries, retryCount>>
  /\ UNCHANGED <<queryVars, askVars>>

UploadNext ==
  \/ \E hours \in Waits : Tick(hours)
  \/ \E files \in CommandLines : Main(files)
  \/ InsertSucceeds
  \/ InsertReturnsError
  \/ \E applied \in BOOLEAN : InsertThrows(applied)
  \/ Return

UploadSpec == UploadInit /\ [][UploadNext]_vars

\* What a run does by itself: every insert it awaits settles, and the loops
\* go on.
UploadStep ==
  \/ InsertSucceeds
  \/ InsertReturnsError
  \/ \E applied \in BOOLEAN : InsertThrows(applied)
  \/ Return

\* The uploader with runs that do not stop on their own account.
UploadLive == UploadInit /\ [][UploadNext]_vars /\ WF_vars(UploadStep)

(***************************************************************************)
(* The AI question tool (ask_sales.js).  Arrays are objects whose keys are *)
(* their indices; the answers of the AI are not interpreted.               *)
(***************************************************************************)

UpperCaseOf == [c \in CharSet(LowerChars) |-> CharAt(UpperChars, IndexIn(LowerChars, c))]

RECURSIVE ToUpperCase(_)
\* String.prototype.toUpperCase.
ToUpperCase(s) ==
  IF s = "" THEN ""
  ELSE (IF CharAt(s, 1) \in DOMAIN UpperCaseOf THEN UpperCaseOf[CharAt(s, 1)] ELSE CharAt(s, 1))
       \o ToUpperCase(From(s, 2))

\* An array with the elements xs.
JSArray(xs) ==
  [t |-> "object", s |-> "array", n |-> NaN,
   o |-> [k \in 1..Len(xs) |-> <<NatToDigits(k - 1), xs[k]>>]]

\* The elements of an array.
Elements(array) == [k \in 1..Len(array.o) |-> array.o[k][2]]

\* customer.products ? Object.keys(customer.products) : []
ProductNames(customer) ==
  IF Truthy(Get(customer, "products"))
  THEN JSArray([k \in 1..Len(Keys(Get(customer, "products"))) |->
                  JSString(Keys(Get(customer, "products"))[k])])
  ELSE JSArray(<<>>)

mapCustomerData(customer) ==
  JSObject(<< <<"name", Get(customer, "name")>>,
              <<"revenue2024", Get(customer, "revenue2024")>>,
              <<"revenue2023", Get(customer, "revenue2023")>>,
              <<"revenue2022", Get(customer, "revenue2022")>>,
              <<"growth", Get(customer, "growth")>>,
              <<"sector", Get(customer, "sector")>>,
              <<"location", Get(customer, "location")>>,
              <<"products", ProductNames(customer)>> >>)

MapCustomers(list) == [k \in 1..Len(list) |-> mapCustomerData(list[k])]

\* An object literal with the keys 2024, 2023 and 2022, which as integer keys
\* come in ascending order.
calculateRevenueTotals(list) ==
  JSObject(<< <<"2022", JSNumber(TotalRevenue(list, "revenue2022", Len(list)))>>,
              <<"2023", JSNumber(TotalRevenue(list, "revenue2023", Len(list)))>>,
              <<"2024", JSNumber(TotalRevenue(list, "revenue2024", Len(list)))>> >>)

\* The first components of a list of pairs.
Firsts(pairs) == [k \in 1..Len(pairs) |-> pairs[k][1]]

\* list.sort((a, b) => Number(b[key]) - Number(a[key])) for values that are
\* numbers: descending, stable.
SortedBy(list, key) ==
  Firsts(SortByValue([j \in 1..Len(list) |-> <<list[j], Get(list[j], key)>>]))

\* array.slice(a, b), with 0-based a and b.
Slice(list, a, b) ==
  IF a >= Len(list) \/ a >= b THEN <<>>
  ELSE SubSeq(list, a + 1, IF b < Len(list) THEN b ELSE Len(list))

\* Math.min(a, b)
Min(a, b) == IF a < b THEN a ELSE b

\* The chunk of createChunks that starts at index i.
ChunkAt(data, chunkSize, context, i) ==
  JSObject(context.o \o
    << <<"data", JSArray(Slice(data, i, i + chunkSize))>>,
       <<"chunkInfo",
         JSObject(<< <<"current", JSInt((i \div chunkSize) + 1)>>,
                     <<"total", JSInt((Len(data) + chunkSize - 1) \div chunkSize)>>,
                     <<"start", JSInt(i + 1)>>,
                     <<"end", JSInt(Min(i + chunkSize, Len(data)))>>,
                     <<"totalItems", JSInt(Len(data))>> >>)>> >>)

RECURSIVE ChunksFrom(_, _, _, _)
ChunksFrom(data, chunkSize, context, i) ==
  IF i >= Len(data) THEN <<>>
  ELSE <<ChunkAt(data, chunkSize, context, i)>>
       \o ChunksFrom(data, chunkSize, context, i + chunkSize)

createChunks(data, chunkSize, context) == ChunksFrom(data, chunkSize, context, 0)

\* The word characters a keyword of the city pattern must not follow.
WordStart(s, p) == p = 1 \/ ~IsWordChar(CharAt(s, p - 1))

\* The length of the keyword (in, at, from) at position p, 0 when none is.
KeywordAt(s, p) ==
  IF MatchesAt(s, p, "in") \/ MatchesAt(s, p, "at") THEN 2
  ELSE IF MatchesAt(s, p, "from") THEN 4
  ELSE 0

\* [a-z\s]
CityCharacters == CharSet(LowerChars) \cup SpaceCharacters

\* Whether ([a-z\s]+)(?:\s|$) can capture the b characters from position c.
CaptureFits(s, c, b) ==
  /\ b <= RunLen(s, c, CityCharacters)
  /\ (c + b > Len(s) \/ IsSpace(CharAt(s, c + b)))

RECURSIVE CaptureLength(_, _, _)
\* The longest capture from position c of at most b characters, 0 when none.
CaptureLength(s, c, b) ==
  IF b = 0 THEN 0 ELSE IF CaptureFits(s, c, b) THEN b ELSE CaptureLength(s, c, b - 1)

RECURSIVE CaptureAfter(_, _, _), CaptureOr(_, _, _, _)
\* The capture behind the keyword that ends before position e, \s+ taking a
\* characters at most (as many as it can); "" when the pattern fails there.
CaptureAfter(s, e, a) ==
  IF a = 0 THEN ""
  ELSE CaptureOr(s, e, a, CaptureLength(s, e + a, RunLen(s, e + a, CityCharacters)))

\* The same, b being the length of the longest capture behind a spaces.
CaptureOr(s, e, a, b) ==
  IF b > 0 THEN Sub(s, e + a, e + a + b - 1) ELSE CaptureAfter(s, e, a - 1)

\* The capture behind a keyword of length w > 0 at position p.
CaptureBehind(s, p, w) == CaptureAfter(s, p + w, RunLen(s, p + w, SpaceCharacters))

\* The capture of the pattern at position p, "" when it does not match there.
CityCaptureAt(s, p) ==
  IF WordStart(s, p) /\ KeywordAt(s, p) > 0 THEN CaptureBehind(s, p, KeywordAt(s, p)) ELSE ""

RECURSIVE CityCaptureFrom(_, _), CaptureOrNext(_, _, _)
\* match[1] of questionLower.match(/\b(?:in|at|from)\s+([a-z\s]+)(?:\s|$)/)
\* from position p on: "" when there is no match.
CityCaptureFrom(s, p) ==
  IF p > Len(s) THEN "" ELSE CaptureOrNext(s, p, CityCaptureAt(s, p))

\* The same, c being the capture at position p.
CaptureOrNext(s, p, c) == IF c # "" THEN c ELSE CityCaptureFrom(s, p + 1)

\* cityMatch ? cityMatch[1].trim().toUpperCase() : ''
searchCity(questionLower) == ToUpperCase(Trim(CityCaptureFrom(questionLower, 1)))

\* The key a customer is grouped under: the trimmed upper-case location, or
\* the sector.
GroupKey(customer, by) ==
  IF by = "location" THEN ToUpperCase(Trim(Get(customer, by).s)) ELSE Get(customer, by).s

RECURSIVE AddToGroup(_, _, _)
\* if (!groups[key]) groups[key] = []; groups[key].push(customer)
AddToGroup(groups, key, customer) ==
  IF groups = <<>> THEN << <<key, <<customer>> >> >>
  ELSE IF groups[1][1] = key THEN << <<key, Append(groups[1][2], customer)>> >> \o Tail(groups)
  ELSE <<groups[1]>> \o AddToGroup(Tail(groups), key, customer)

RECURSIVE GroupsOf(_, _, _)
\* cityGroups and sectorGroups after the first n customers: the customers that
\* have the attribute, under their keys in the order the keys came up.
GroupsOf(list, by, n) ==
  IF n = 0 THEN <<>>
  ELSE IF ~Truthy(Get(list[n], by)) THEN GroupsOf(list, by, n - 1)
  ELSE AddToGroup(GroupsOf(list, by, n - 1), GroupKey(list[n], by), list[n])

\* The customers of the group with the key, <<>> when there is no such group.
GroupWith(groups, key) ==
  IF \E k \in 1..Len(groups) : groups[k][1] = key
  THEN groups[CHOOSE k \in 1..Len(groups) : groups[k][1] = key][2]
  ELSE <<>>

\* One entry of cityAnalysis.
CityEntry(group) ==
  JSObject(<< <<"city", JSString(group[1])>>,
              <<"customerCount", JSInt(Len(group[2]))>>,
              <<"totalRevenue", calculateRevenueTotals(group[2])>> >>)

\* An entry with its 2024 total.
WithTotal(entry) == <<entry, Get(Get(entry, "totalRevenue"), "2024")>>

\* cityAnalysis, sorted by the 2024 total.
cityAnalysis(groups) ==
  Firsts(SortByValue([j \in 1..Len(groups) |-> WithTotal(CityEntry(groups[j]))]))

\* The chunks for the customers cityData of the city searched for.
CityCustomerChunks(cityData, city) ==
  createChunks(MapCustomers(SortedBy(cityData, "revenue2024")), 10,
               JSObject(<< <<"city", JSString(city)>>,
                           <<"customerCount", JSInt(Len(cityData))>>,
                           <<"totalRevenue", calculateRevenueTotals(cityData)>> >>))

\* The chunks of the city and location analysis, cityData being
\* cityGroups[searchCity] (<<>> when there is none).
CityChunksOf(groups, city, cityData) ==
  IF city # "" /\ cityData # <<>> THEN CityCustomerChunks(cityData, city)
  ELSE createChunks(cityAnalysis(groups), 10, JSObject(<< <<"type", JSString("cityOverview")>> >>))

CityChunksIn(groups, city) == CityChunksOf(groups, city, GroupWith(groups, city))

CityChunks(list, city) == CityChunksIn(GroupsOf(list, "location", Len(list)), city)

\* The context of the customer analysis with the given type.
CustomerContext(withRevenue, type) ==
  JSObject(<< <<"type", JSString(type)>>,
              <<"totalCustomers", JSInt(Len(withRevenue))>>,
              <<"totalRevenue", calculateRevenueTotals(withRevenue)>> >>)

\* c.growth !== 'N/A' && c.growth !== 'Not Available'
HasGrowth(customer) == Get(customer, "growth") \notin {JSString("N/A"), JSString("Not Available")}

\* The chunks of the customer analysis, withRevenue being customersWithRevenue.
CustomerChunks(withRevenue, questionLower) ==
  IF Includes(questionLower, "top") \/ Includes(questionLower, "largest")
  THEN createChunks(Slice(SortedBy(withRevenue, "revenue2024"), 0, 50), 10,
                    CustomerContext(withRevenue, "topCustomers"))
  ELSE IF Includes(questionLower, "growth")
  THEN createChunks(Slice(SortedBy(SelectSeq(withRevenue, HasGrowth), "growth"), 0, 50), 10,
                    CustomerContext(withRevenue, "fastestGrowing"))
  ELSE createChunks(withRevenue, 10, CustomerContext(withRevenue, "customerAnalysis"))

\* Number(c.revenue2024) > 0
HasRevenue(customer) == NumLess(Dec(0, 0), ToNumber(Get(customer, "revenue2024")))

\* One entry of sectorData.
SectorEntry(group) ==
  JSObject(<< <<"sector", JSString(group[1])>>,
              <<"customerCount", JSInt(Len(group[2]))>>,
              <<"totalRevenue", calculateRevenueTotals(group[2])>>,
              <<"customers", JSArray(MapCustomers(SortedBy(group[2], "revenue2024")))>> >>)

\* sectorData
sectorData(groups) == [k \in 1..Len(groups) |-> SectorEntry(groups[k])]

\* The chunks of the sector analysis.
SectorChunks(list) ==
  createChunks(sectorData(GroupsOf(list, "sector", Len(list))), 5,
               JSObject(<< <<"type", JSString("sectorAnalysis")>> >>))

\* c.products && Object.keys(c.products).length > 0
HasProducts(customer) ==
  Truthy(Get(customer, "products")) /\ Len(Keys(Get(customer, "products"))) > 0

\* { ...mapCustomerData(customer), productCount }
WithProductCount(customer) ==
  JSObject(mapCustomerData(customer).o
           \o << <<"productCount", JSInt(Len(Keys(Get(customer, "products"))))>> >>)

\* The customers with their product counts.
WithProductCounts(list) == [k \in 1..Len(list) |-> WithProductCount(list[k])]

\* productData, sorted by the number of products.
productData(list) == SortedBy(WithProductCounts(SelectSeq(list, HasProducts)), "productCount")

\* The chunks of the product analysis for productData.
ProductChunksOf(data) ==
  createChunks(data, 10,
               JSObject(<< <<"type", JSString("productAnalysis")>>,
                           <<"totalCustomersWithProducts", JSInt(Len(data))>> >>))

ProductChunks(list) == ProductChunksOf(productData(list))

\* relevantData with and without chunks.
WithChunks(data, chunks) ==
  [totalCustomers |-> data.totalCustomers, totalRevenue |-> data.totalRevenue,
   hasChunks |-> TRUE, chunks |-> chunks]

WithoutChunks(data) ==
  [totalCustomers |-> data.totalCustomers, totalRevenue |-> data.totalRevenue,
   hasChunks |-> FALSE, chunks |-> <<>>]

\* getRelevantData(analysisData, question), on the lower-case question.
RelevantTo(data, questionLower) ==
  IF \/ Includes(questionLower, "city")
     \/ Includes(questionLower, "location")
     \/ Includes(questionLower, "in")
  THEN WithChunks(data, CityChunks(data.customers, searchCity(questionLower)))
  ELSE IF Includes(questionLower, "customer") \/ Includes(questionLower, "client")
  THEN WithChunks(data, CustomerChunks(MapCustomers(SelectSeq(data.customers, HasRevenue)),
                                       questionLower))
  ELSE IF Includes(questionLower, "sector") \/ Includes(questionLower, "industry")
  THEN WithChunks(data, SectorChunks(data.customers))
  ELSE IF \/ Includes(questionLower, "product")
          \/ Includes(questionLower, "software")
          \/ Includes(questionLower, "websphere")
          \/ Includes(questionLower, "mq")
  THEN WithChunks(data, ProductChunks(data.customers))
  ELSE WithoutChunks(data)

getRelevantData(data, question) == RelevantTo(data, ToLowerCase(question))

\* array.join(', ') of an array of strings.
RECURSIVE JoinFrom(_, _)
JoinFrom(xs, k) ==
  IF k > Len(xs) THEN ""
  ELSE IF k = Len(xs) THEN TemplateText(xs[k])
  ELSE TemplateText(xs[k]) \o ", " \o JoinFrom(xs, k + 1)

\* text || 'None'
OrNone(text) == IF text = "" THEN "None" ELSE text

\* `${c.products.join(', ') || 'None'}`
ProductsText(products) == OrNone(JoinFrom(Elements(products), 1))

\* `${Number(v).toLocaleString()}`
RevenueText(v) == ToLocaleString(ToNumber(v))

\* (c.location || '').trim().toUpperCase() === city
IsLocatedIn(customer, city) ==
  city = (IF Truthy(Get(customer, "location"))
          THEN ToUpperCase(Trim(Get(customer, "location").s)) ELSE "")

\* The customers of the list for which the flags hold, in their order.
RECURSIVE Where(_, _, _)
Where(list, flags, n) ==
  IF n = 0 THEN <<>>
  ELSE IF flags[n] THEN Append(Where(list, flags, n - 1), list[n])
  ELSE Where(list, flags, n - 1)

\* The lines of one customer in the answer of the given type.
CustomerAnswerLines(c, type) ==
  <<"", TemplateText(Get(c, "name")),
    "    - Revenue 2024: $" \o RevenueText(Get(c, "revenue2024"))>>
  \o (IF type = "cityCustomers"
      THEN <<"    - Revenue 2023: $" \o RevenueText(Get(c, "revenue2023")),
             "    - Growth: " \o TemplateText(Get(c, "growth")) \o "%",
             "    - Sector: " \o TemplateText(Get(c, "sector")),
             "    - Products: " \o ProductsText(ProductNames(c))>>
      ELSE IF type = "productCustomers"
      THEN <<"    - Location: " \o TemplateText(Get(c, "location")),
             "    - Sector: " \o TemplateText(Get(c, "sector"))>>
      ELSE <<"    - Location: " \o TemplateText(Get(c, "location")),
             "    - Products: " \o ProductsText(ProductNames(c))>>)

RECURSIVE AnswerLinesUpTo(_, _, _)
AnswerLinesUpTo(list, type, n) ==
  IF n = 0 THEN <<>>
  ELSE AnswerLinesUpTo(list, type, n - 1) \o CustomerAnswerLines(list[n], type)

\* formatDataResponse for the customers found, already sorted.
formatDataResponse(type, about, list) ==
  (IF type = "cityCustomers"
   THEN <<"Customers in " \o about \o " (" \o NatToDigits(Len(list)) \o " total)", "",
          "Revenue Summary:",
          "- 2024: $" \o ToLocaleString(TotalRevenue(list, "revenue2024", Len(list))),
          "- 2023: $" \o ToLocaleString(TotalRevenue(list, "revenue2023", Len(list))),
          "- 2022: $" \o ToLocaleString(TotalRevenue(list, "revenue2022", Len(list))),
          "", "Customers (sorted by 2024 revenue):">>
   ELSE IF type = "productCustomers"
   THEN <<"Customers using " \o about \o " (" \o NatToDigits(Len(list)) \o " total):">>
   ELSE <<"Customers in " \o about \o " sector (" \o NatToDigits(Len(list)) \o " total):">>)
  \o AnswerLinesUpTo(list, type, Len(list))

\* The answer to a city query, cityCustomers being the customers there.
CityResponseFor(cityCustomers, city) ==
  IF Len(cityCustomers) > 0
  THEN formatDataResponse("cityCustomers", city, SortedBy(cityCustomers, "revenue2024"))
  ELSE <<"No customers found in " \o city \o ".">>

CityResponse(list, city) ==
  CityResponseFor(Where(list, [k \in 1..Len(list) |-> IsLocatedIn(list[k], city)], Len(list)),
                  city)

\* productMatches: the top products the question names.
productMatches(topProducts, questionLower) ==
  SelectSeq(topProducts, LAMBDA product : Includes(questionLower, ToLowerCase(product)))

\* The answer to a product query that names the product.
ProductResponse(list, product) ==
  formatDataResponse("productCustomers", product,
    SortedBy(Where(list, [k \in 1..Len(list) |->
                            /\ Truthy(Get(list[k], "products"))
                            /\ Truthy(Get(Get(list[k], "products"), product))], Len(list)),
             "revenue2024"))

RECURSIVE SectorsOf(_, _)
\* [...new Set(customers.map(c => c.sector).filter(Boolean))] of the first n.
SectorsOf(list, n) ==
  IF n = 0 THEN <<>>
  ELSE IF ~Truthy(Get(list[n], "sector"))
          \/ \E k \in 1..(n - 1) : Get(list[k], "sector") = Get(list[n], "sector")
  THEN SectorsOf(list, n - 1)
  ELSE Append(SectorsOf(list, n - 1), Get(list[n], "sector").s)

\* The sectors the question names.
sectorMatch(list, questionLower) ==
  SelectSeq(SectorsOf(list, Len(list)), LAMBDA s : Includes(questionLower, ToLowerCase(s)))

\* The answer to a sector query that names the sector.
SectorResponse(list, sector) ==
  formatDataResponse("sectorCustomers", sector,
    SortedBy(Where(list, [k \in 1..Len(list) |-> Get(list[k], "sector") = JSString(sector)],
                   Len(list)),
             "revenue2024"))

\* getDirectDataResponse from the sector queries on, matches being the
\* sectors the question names.
SectorOrNothing(data, questionLower, matches) ==
  IF (Includes(questionLower, "sector") \/ Includes(questionLower, "industry"))
     /\ Len(matches) > 0
  THEN SectorResponse(data.customers, matches[1])
  ELSE <<"Please specify what information you are looking for (e.g., customers in a city, using a product, or in a sector).">>

\* getDirectDataResponse from the product queries on, matches being
\* productMatches.
ProductOrSector(data, questionLower, matches) ==
  IF (Includes(questionLower, "product") \/ Includes(questionLower, "using"))
     /\ Len(matches) > 0
  THEN ProductResponse(data.customers, matches[1])
  ELSE SectorOrNothing(data, questionLower, sectorMatch(data.customers, questionLower))

\* getDirectDataResponse on the lower-case question, city being searchCity.
DirectResponse(data, questionLower, city) ==
  IF Includes(questionLower, "in") /\ city # "" THEN CityResponse(data.customers, city)
  ELSE ProductOrSector(data, questionLower, productMatches(data.topProducts, questionLower))

getDirectDataResponse(data, question) ==
  DirectResponse(data, ToLowerCase(question), searchCity(ToLowerCase(question)))

\* What one call hands to the AI for a line: the question, the kind of the
\* call (a chunk, the summary of the chunks, or the data as a whole), the
\* data, and the analysis so far.
Call(id, question, kind, data, previous) ==
  [line |-> id, question |-> question, kind |-> kind, data |-> data, previous |-> previous]

\* The handler of a line: its state, the chunks of its question, the number
\* k of the chunk at the AI (0: none), and the answer so far.
Handler(id, question, state, chunks, k, answer) ==
  [line |-> id, question |-> question, state |-> state, chunks |-> chunks, k |-> k,
   answer |-> answer]

\* askQuestionWithChunks up to its first await: with chunks, the call for
\* the first one (and with an empty list of chunks the empty answer at once);
\* without, the call for the data as a whole.
AnalysisHandler(id, question, relevantData) ==
  IF relevantData.hasChunks /\ Len(relevantData.chunks) = 0
  THEN Handler(id, question, "resolved", <<>>, 0, <<"">>)
  ELSE Handler(id, question, "awaiting", relevantData.chunks,
               IF relevantData.hasChunks THEN 1 ELSE 0, <<>>)

\* The handler of a line up to its first await, questionLower being the
\* line in lower case.
StartedOn(id, question, questionLower, data) ==
  IF questionLower = "exit" THEN Handler(id, question, "exit", <<>>, 0, <<>>)
  ELSE IF Includes(questionLower, "analyze") \/ Includes(questionLower, "analysis")
  THEN AnalysisHandler(id, question, getRelevantData(data, question))
  ELSE Handler(id, question, "resolved", <<>>, 0, getDirectDataResponse(data, question))

Started(id, question, data) == StartedOn(id, question, ToLowerCase(question), data)

\* The call a handler that awaits the AI has made.
CallOf(h, data) ==
  IF h.k = 0
  THEN Call(h.line, h.question, "whole",
            JSObject(<< <<"totalCustomers", data.totalCustomers>>,
                        <<"totalRevenue", data.totalRevenue>> >>), h.answer)
  ELSE IF h.k > Len(h.chunks)
  THEN Call(h.line, h.question, "summary", JSNull, h.answer)
  ELSE Call(h.line, h.question, "chunk", h.chunks[h.k], h.answer)

RECURSIVE StartAll(_, _, _)
\* The handlers after the lines qs of one input event: each line starts its
\* handler, which runs up to its first await, and exit ends the process.
StartAll(hs, qs, data) ==
  IF qs = <<>> \/ (hs # <<>> /\ hs[Len(hs)].state = "exit") THEN hs
  ELSE StartAll(Append(hs, Started(Len(hs) + 1, qs[1], data)), Tail(qs), data)

\* The process has exited.
Exited(hs) == hs # <<>> /\ hs[Len(hs)].state = "exit"

\* The calls made by the handlers from position n on that await the AI.
RECURSIVE CallsFrom(_, _, _)
CallsFrom(hs, n, data) ==
  IF n > Len(hs) THEN <<>>
  ELSE (IF hs[n].state = "awaiting" THEN <<CallOf(hs[n], data)>> ELSE <<>>)
       \o CallsFrom(hs, n + 1, data)

\* What is printed for a line.
Answer(id, text) == [line |-> id, text |-> text]

\* The answers printed once the input event is over: those of the handlers
\* from position n on that had nothing to wait for; none of them when the
\* process has exited.
RECURSIVE AnswersFrom(_, _)
AnswersFrom(hs, n) ==
  IF n > Len(hs) THEN <<>>
  ELSE (IF hs[n].state = "resolved" THEN <<Answer(n, hs[n].answer)>> ELSE <<>>)
       \o AnswersFrom(hs, n + 1)

\* The handlers once their answers are printed.
Settled(hs) ==
  [n \in 1..Len(hs) |-> IF hs[n].state = "resolved" THEN [hs[n] EXCEPT !.state = "answered"]
                         ELSE hs[n]]

\* The text the AI answers a call with.
AIAnswers == {"Insights."}

\* The handler after the AI has answered its call with the text: the next
\* chunk, the summary after the last of several chunks, or the final answer.
Continued(h, text) ==
  IF h.k = 0 \/ Len(h.chunks) = 1 \/ h.k > Len(h.chunks)
  THEN [h EXCEPT !.state = "answered", !.answer = <<text>>]
  ELSE IF h.k = 1 THEN [h EXCEPT !.k = 2, !.answer = <<text>>]
  ELSE IF h.k = Len(h.chunks) THEN [h EXCEPT !.k = h.k + 1, !.answer = h.answer \o <<"", text>>]
  ELSE [h EXCEPT !.k = h.k + 1, !.answer = h.answer \o <<"", text>>]

\* Customers as the analysis data holds them.
Apex ==
  JSObject(<< <<"name", JSString("Apex")>>,
              <<"sector", JSString("Industrial")>>,
              <<"location", JSString("Atlanta")>>,
              <<"tech_client", JSString("Potential")>>,
              <<"revenue2024", JSInt(500)>>,
              <<"revenue2023", JSInt(400)>>,
              <<"growth", JSString("25.00")>>,
              <<"products", JSObject(<< <<"mq", JSBoolean(TRUE)>> >>)>> >>)

Borealis ==
  JSObject(<< <<"name", JSString("Borealis")>>,
              <<"sector", JSString("CommCSI")>>,
              <<"location", JSString("Macon")>>,
              <<"tech_client", JSString("Existing")>>,
              <<"revenue2024", JSInt(900)>>,
              <<"growth", JSString("N/A")>> >>)

Cobalt ==
  JSObject(<< <<"name", JSString("Cobalt")>>,
              <<"sector", JSString("Industrial")>>,
              <<"location", JSString("ATLANTA ")>>,
              <<"tech_client", JSString("Potential")>>,
              <<"revenue2024", JSInt(0)>>,
              <<"products", JSObject(<<>>)>> >>)

AskPool == {Apex, Borealis, Cobalt}

\* The largest number of customers in the analysis data.
MaxAskCustomers == 2

\* territory_analysis_data.json with the customers cs.
AnalysisData(cs) ==
  [customers |-> cs, totalCustomers |-> JSInt(Len(cs)),
   totalRevenue |-> calculateRevenueTotals(cs), topProducts |-> <<"mq">>]

AnalysisFiles == {AnalysisData(cs) : cs \in UNION {[1..n -> AskPool] : n \in 0..MaxAskCustomers}}

AskLines ==
  {"analyze:sector:CommCSI",
   "analyze:sector:Industrial",
   "analyze:tech_client:Potential:question:Which sectors have the highest revenue potential?",
   "analyze customers in atlanta",
   "analyze the top customers",
   "analyze product adoption",
   "analyze",
   "customers in atlanta",
   "customers using mq",
   "the industrial sector",
   "hello"}

AskExitLines == {"exit", "Exit"}

\* The largest number of lines entered in a session, and of lines that
\* arrive in one input event.
MaxQuestions == 2

MaxTogether == 2

InputEvents == UNION {[1..n -> AskLines \cup AskExitLines] : n \in 1..MaxTogether}

AskInit ==
  /\ analysisData \in AnalysisFiles
  /\ handlers = <<>>
  /\ handed = <<>>
  /\ printed = <<>>
  /\ asking = "prompt"
  /\ QueryToolOff
  /\ UploaderOff

\* The state of the tool after an input event that leaves the handlers hs.
EventOver(hs) ==
  /\ handlers' = Settled(hs)
  /\ handed' = handed \o CallsFrom(hs, Len(handlers) + 1, analysisData)
  /\ printed' = IF Exited(hs) THEN Append(printed, Answer(Len(hs), <<"Goodbye!">>))
                ELSE printed \o AnswersFrom(hs, Len(handlers) + 1)
  /\ asking' = IF Exited(hs) THEN "exited" ELSE "prompt"

\* The lines qs arrive in one input event: each starts its handler, which
\* runs up to its first await; an exit line prints Goodbye! and ends the
\* process on the spot; otherwise the answers that waited for nothing are
\* printed once the event is over.
Lines(qs) ==
  /\ asking = "prompt"
  /\ Len(handlers) + Len(qs) <= MaxQuestions
  /\ EventOver(StartAll(handlers, qs, analysisData))
  /\ UNCHANGED analysisData
  /\ UNCHANGED <<queryVars, uploadVars>>

\* The AI answers the call of the handler of line id: the handler makes its
\* next call, or prints its answer.
Reply(id, text) ==
  /\ asking = "prompt"
  /\ handlers[id].state = "awaiting"
  /\ handlers' = [handlers EXCEPT ![id] = Continued(handlers[id], text)]
  /\ IF handlers'[id].state = "answered"
     THEN /\ printed' = Append(printed, Answer(id, handlers'[id].answer))
          /\ UNCHANGED handed
     ELSE /\ handed' = Append(handed, CallOf(handlers'[id], analysisData))
          /\ UNCHANGED printed
  /\ UNCHANGED <<analysisData, asking>>
  /\ UNCHANGED <<queryVars, uploadVars>>

\* The call of the handler of line id throws: the handler prints the apology.
Throws(id) ==
  /\ asking = "prompt"
  /\ handlers[id].state = "awaiting"
  /\ handlers' = [handlers EXCEPT ![id].state = "answered"]
  /\ printed' = Append(printed, Answer(id,
       <<"Sorry, there was an error processing your question. Please try again or rephrase your question.">>))
  /\ UNCHANGED <<analysisData, handed, asking>>
  /\ UNCHANGED <<queryVars, uploadVars>>

AskNext ==
  \/ \E qs \in InputEvents : Lines(qs)
  \/ \E id \in 1..Len(handlers) : \E text \in AIAnswers : Reply(id, text)
  \/ \E id \in 1..Len(handlers) : Throws(id)

AskSpec == AskInit /\ [][AskNext]_vars

(***************************************************************************)
(* The properties of the specification, as formulas over the session.      *)
(***************************************************************************)

\* search has returned for the current line.
Returned == pc = "format"

\* The handler is past search for the current line: search returned, or an
\* error was thrown on the way.
Answered == pc \in {"format", "caught"}

\* parseQuery has just run on the current line.
Parsed == pc = "search" \/ (pc = "caught" /\ queryParams.kind = "TypeError")

\* Record i of the collection is among the records returned.
IsIn(i) == \E k \in 1..Len(searchResults.results) : searchResults.results[k] = customers[i]

\* What search returns for the records recs: each one whole, or reduced to the
\* selected fields.
Expected(recs) ==
  IF queryParams.hasSelected
  THEN [k \in 1..Len(recs) |-> Project(recs[k], queryParams.selectedFields)]
  ELSE recs

\* The names of the attributes present on R, nested ones dot-joined.
FieldsOf(R) == getAvailableFields(R, "", 1)

PresentOn(R, A) == \E k \in 1..Len(FieldsOf(R)) : FieldsOf(R)[k] = A

ProductsOf(R) == KeysOf(OrEmptyObject(Get(R, "products")))

NumericFields == {"revenue_2024", "revenue_2023", "revenue_2022", "employee_count", "growth"}

\* C1 (fail-open law): for every line whose parse yields a request with an
\* empty criteria list, search returns a count equal to the number of records
\* loaded, whether or not a projection is present.
C1_FailOpen ==
  (Answered /\ queryParams.kind = "request" /\ queryParams.criteria = <<>>)
    => (Returned /\ searchResults.count = Len(customers))

\* C2 (round trip, as stated): for every record R of the collection and every
\* attribute A present on R, the line `A:<value of R.A>' returns R.
C2_RoundTrip ==
  Answered =>
    \A i \in 1..Len(customers) : \A k \in 1..Len(FieldsOf(customers[i])) :
      line = RoundTripLine(customers[i], FieldsOf(customers[i])[k])
        => (Returned /\ IsIn(i))

\* The text the colon form makes of a value: trimmed, and without a double
\* quote at either end.
Unquoted(s) == StripQuotes(Trim(s))

\* Text that leaves something to search for.
Searchable(v) == v.t = "string" => Trim(Unquoted(v.s)) # ""

\* The attributes and stored values for which the round trip holds.
Faithful(A, v) ==
  /\ WordDotForm(A)
  /\ A \notin {"products", "clean_products", "location"}
  /\ IF A \in NumericFields THEN ~IsNaNNum(ParseFloatOf(v))
     ELSE IF A = "city" THEN v.t = "string" /\ v.s # "" /\ Unquoted(v.s) = v.s
     ELSE IF Includes(A, ".") /\ v.t = "number" THEN TRUE
     ELSE Truthy(v) /\ Searchable(v)

\* C2 (round trip, amended): the line `A:<value of R.A>' returns R when A is
\* made of word characters (dot-joined when nested), is not the product
\* mapping or the location, and its stored value is: for the revenue,
\* employee-count and growth attributes a number or text that parses as one;
\* for city, non-empty text without white space or a double quote at either
\* end; for a nested attribute a number; for every attribute other than the
\* numeric ones and city, a value that is not null, false, zero or text empty
\* once trimmed and unquoted.  The line `products:<P>' returns R for every
\* product name P of R that is not empty once trimmed and unquoted.
C2_RoundTripAmended ==
  Answered =>
    \A i \in 1..Len(customers) :
      /\ \A k \in 1..Len(FieldsOf(customers[i])) :
           (/\ line = RoundTripLine(customers[i], FieldsOf(customers[i])[k])
            /\ Faithful(FieldsOf(customers[i])[k],
                        getNestedValue(customers[i], FieldsOf(customers[i])[k])))
             => (Returned /\ IsIn(i))
      /\ \A k \in 1..Len(ProductsOf(customers[i])) :
           (/\ line = ProductLine(ProductsOf(customers[i])[k])
            /\ Trim(Unquoted(ProductsOf(customers[i])[k])) # "")
             => (Returned /\ IsIn(i))

\* C2, its case: the growth of Delta is the text "12.50", and the line made
\* of it returns Delta.
C2_Witness ==
  /\ Returned
  /\ line = RoundTripLine(Delta, "growth")
  /\ \E i \in 1..Len(customers) : customers[i] = Delta /\ IsIn(i)

\* C3 (parser priority): the output of parseQuery is the output of the first
\* form, in the order directive, colon, equals, two-token, natural language,
\* select/where, that recognizes the line.
C3_ParserPriority ==
  Parsed =>
    /\ DirectiveMatches(line) => queryParams = Directive
    /\ (~DirectiveMatches(line) /\ ColonMatches(line)) => queryParams = ColonForm(line)
    /\ (~DirectiveMatches(line) /\ ~ColonMatches(line) /\ EqualsMatches(line))
         => queryParams = EqualsForm(line)
    /\ (/\ ~DirectiveMatches(line) /\ ~ColonMatches(line) /\ ~EqualsMatches(line)
        /\ TwoTokenMatches(line))
         => queryParams = TwoTokenForm(line)
    /\ (/\ ~DirectiveMatches(line) /\ ~ColonMatches(line) /\ ~EqualsMatches(line)
        /\ ~TwoTokenMatches(line) /\ NaturalLanguageMatches(line))
         => queryParams = NaturalLanguageForm(line)
    /\ (/\ ~DirectiveMatches(line) /\ ~ColonMatches(line) /\ ~EqualsMatches(line)
        /\ ~TwoTokenMatches(line) /\ ~NaturalLanguageMatches(line))
         => queryParams = SelectWhereForm(line, availableFields)

\* C3, its case: a line that the colon form and the two-token form both
\* recognize has the output of the colon form, which is not that of the
\* two-token form.
C3_Witness ==
  /\ Parsed
  /\ ColonMatches(line) /\ TwoTokenMatches(line)
  /\ queryParams = ColonForm(line)
  /\ queryParams # TwoTokenForm(line)

\* A token that is no keyword of the select/where form and names no alias and
\* no known attribute.
NamesNothing(token, avail) ==
  /\ token \notin {"select", "where", "from", "fields", "list fields", "show fields"}
  /\ FindMapping(token) = 0
  /\ FindField(avail.list, token, "either") = 0

NoTokenNames(parts, avail) ==
  \A k \in 1..Len(parts) : NamesNothing(ToLowerCase(parts[k]), avail)

\* A line that none of the forms recognizes.
NoFormMatches(query, avail) ==
  /\ ~DirectiveMatches(query) /\ ~ColonMatches(query) /\ ~EqualsMatches(query)
  /\ ~TwoTokenMatches(query) /\ ~NaturalLanguageMatches(query)
  /\ NoTokenNames(SplitOutsideQuotes(query), avail)

\* C4 (parsing is never fatal): parseQuery raises no error for any line, and
\* a line that none of the forms recognizes yields a request with an empty
\* criteria list and no projection.
C4_ParsingNeverFatal ==
  /\ queryParams.kind # "TypeError"
  /\ (Parsed /\ NoFormMatches(line, availableFields)) => queryParams = Request(<<>>, <<>>)

\* A record that satisfies every one of the criteria.
SatisfiesAll(customer, criteria) ==
  \A k \in 1..Len(criteria) : CriterionTest(customer, criteria[k]) = "match"

SatisfiesSome(customer, criteria) ==
  \E k \in 1..Len(criteria) : CriterionTest(customer, criteria[k]) = "match"

\* C5 (conjunction): when a request carries several criteria, the records
\* returned are exactly the records that satisfy every one of them, in the
\* order of the collection.
C5_Conjunction ==
  (Returned /\ queryParams.kind = "request" /\ Len(queryParams.criteria) >= 2)
    => /\ searchResults.results
            = Expected(SelectSeq(customers,
                                 LAMBDA c : SatisfiesAll(c, queryParams.criteria)))
       /\ searchResults.count = Len(searchResults.results)

\* C5, its case: of two records that satisfy the first of two criteria, the
\* one that satisfies the second too is returned and the other is not.
C5_Witness ==
  /\ Returned
  /\ queryParams.kind = "request" /\ Len(queryParams.criteria) = 2
  /\ ~queryParams.hasSelected
  /\ customers = <<Zychos, Delta>>
  /\ SatisfiesAll(Zychos, queryParams.criteria)
  /\ SatisfiesSome(Delta, queryParams.criteria)
  /\ searchResults.results = <<Zychos>>

\* A request with the one criterion revenue_2024 >= T.
RevenueThreshold ==
  /\ queryParams.kind = "request"
  /\ Len(queryParams.criteria) = 1
  /\ queryParams.criteria[1].field = "revenue_2024"
  /\ queryParams.criteria[1].operator = ">="

\* The record has a revenue_2024, and it is at least T.
RevenueAtLeast(customer, T) ==
  /\ ~IsNaNNum(ParseFloatOf(Get(customer, "revenue_2024")))
  /\ NumLeq(T, ParseFloatOf(Get(customer, "revenue_2024")))

\* C6 (revenue threshold): for the criterion revenue_2024 >= T the records
\* returned are exactly the records whose revenue_2024 is at least T, the
\* ones where it equals T included.
C6_RevenueThreshold ==
  (Answered /\ RevenueThreshold)
    => /\ Returned
       /\ \A i \in 1..Len(customers) :
            IsIn(i) <=> RevenueAtLeast(customers[i], queryParams.criteria[1].value.n)

\* A criterion with a comparison operator, or on a numeric attribute.
NumericCriterion(criterion) == criterion.operator # "" \/ criterion.field \in NumericFields

\* A stored value that is not a number: missing, null, boolean, or text that
\* does not parse as a number.
NotANumber(v) ==
  \/ v.t \in {"undefined", "null", "boolean"}
  \/ (v.t = "string" /\ IsNaNNum(ParseFloat(v.s)))

\* C7 (type mismatch): a numeric criterion is never satisfied by a record
\* whose stored value for the attribute is not a number, and evaluating it
\* raises no error.
C7_TypeMismatch ==
  (Answered /\ queryParams.kind = "request" /\ ~queryParams.hasSelected)
    => \A k \in 1..Len(queryParams.criteria) :
         NumericCriterion(queryParams.criteria[k])
           => /\ Returned
              /\ \A i \in 1..Len(customers) :
                   NotANumber(Get(customers[i], queryParams.criteria[k].field)) => ~IsIn(i)

\* The attribute is present on no record of the collection.
OnNoRecord(A) == \A i \in 1..Len(customers) : ~PresentOn(customers[i], A)

\* C8 (unknown attributes): a criterion whose attribute is present on no
\* record matches no record: the count is 0, and search raises no error.
C8_UnknownAttribute ==
  (/\ Answered /\ queryParams.kind = "request"
   /\ \E k \in 1..Len(queryParams.criteria) : OnNoRecord(queryParams.criteria[k].field))
    => (Returned /\ searchResults.count = 0)

\* A request with the one criterion city = atlanta, in any case.
AtlantaCriterion ==
  /\ queryParams.kind = "request"
  /\ Len(queryParams.criteria) = 1
  /\ queryParams.criteria[1].field = "city"
  /\ queryParams.criteria[1].operator = ""
  /\ ToLowerCase(queryParams.criteria[1].value.s) = "atlanta"

\* The city of the record, in the canonical or in the original spelling, is
\* atlanta in any case.
InAtlanta(customer) ==
  \/ ToLowerCase(JSToString(OrEmpty(Get(customer, "city")))) = "atlanta"
  \/ ToLowerCase(JSToString(OriginalOf(customer, "Prmry City Name"))) = "atlanta"

\* C9 (Atlanta exception): for a city criterion whose value is atlanta in any
\* case, the records returned are exactly the records whose city, canonical
\* or original, is atlanta in any case.
C9_AtlantaException ==
  (Answered /\ AtlantaCriterion)
    => /\ Returned
       /\ searchResults.results = Expected(SelectSeq(customers, InAtlanta))

\* C9, its case: a record whose city contains atlanta is left out, and one
\* whose original city is ATLANTA is returned.
C9_Witness ==
  /\ Returned /\ AtlantaCriterion
  /\ customers = <<Delta, Birch>>
  /\ Includes(ToLowerCase(Get(Delta, "city").s), "atlanta")
  /\ searchResults.results = <<Birch>>

\* The list is in the order of sort(): no text before one that is less.
InOrder(fields) ==
  \A k \in 1..(Len(fields) - 1) : ~StrLess(fields[k + 1].s, fields[k].s)

\* C10 (show fields): the directive, on a collection that is not empty, after
\* any lines, returns a field list that is not empty and is sorted, and raises
\* no error.
C10_ShowFields ==
  (Answered /\ queryParams.kind = "directive" /\ Len(customers) > 0)
    => /\ Returned
       /\ searchResults.kind = "show_fields"
       /\ Len(searchResults.fields) > 0
       /\ InOrder(searchResults.fields)

\* C10, its case: the directive on two records with different attributes, the
\* first of which does not have its attributes in sorted order.
C10_Witness ==
  /\ Returned /\ queryParams.kind = "directive"
  /\ customers = <<Zychos, Birch>>
  /\ FieldsOf(Zychos) # Sort(FieldsOf(Zychos))
  /\ searchResults.fields = [k \in 1..Len(FieldsOf(Zychos)) |-> JSString(Sort(FieldsOf(Zychos))[k])]

\* The names of the attributes of R itself.
TopNames(R) == {R.o[k][1] : k \in 1..Len(R.o)}

\* The names one level below: those of the mappings R holds, dot-joined.
NestedNames(R) ==
  UNION {{R.o[k][1] \o "." \o R.o[k][2].o[j][1] : j \in 1..Len(R.o[k][2].o)} :
           k \in {n \in 1..Len(R.o) : R.o[n][2].t = "object"}}

\* The names observable across the records of the collection.
ObservableNames ==
  UNION {TopNames(customers[i]) \cup NestedNames(customers[i]) : i \in 1..Len(customers)}

ListedNames == {searchResults.fields[k].s : k \in 1..Len(searchResults.fields)}

\* C11 (field-list completeness): the list the directive returns holds every
\* attribute name that appears on any record of the collection, with one
\* level of nested names, dot-joined, and nothing else.
C11_FieldListComplete ==
  (Returned /\ queryParams.kind = "directive") => ListedNames = ObservableNames

\* The request without its projection.
WithoutProjection(params) == [params EXCEPT !.hasSelected = FALSE, !.selectedFields = <<>>]

\* The records search returns for the criteria of the request alone.
Unprojected == search(WithoutProjection(queryParams), customers, availableFields).results

\* The result record has exactly the names F, in the order of F, each with
\* the value the path leads to in the source record.
ReducedTo(result, source, F) ==
  /\ Len(result.o) = Len(F)
  /\ \A j \in 1..Len(F) :
       /\ result.o[j][1] = F[j].s
       /\ result.o[j][2] = getNestedValue(source, F[j].s)

\* C12 (projection): with a projection F every result record has exactly the
\* names of F, each with the value of the source record, and the count and
\* the order are those of the same criteria without projection; without a
\* projection the records are returned whole.
C12_Projection ==
  (Answered /\ queryParams.kind = "request")
    => /\ Returned
       /\ searchResults.count = Len(Unprojected)
       /\ Len(searchResults.results) = Len(Unprojected)
       /\ IF queryParams.hasSelected
          THEN \A k \in 1..Len(Unprojected) :
                 ReducedTo(searchResults.results[k], Unprojected[k], queryParams.selectedFields)
          ELSE searchResults.results = Unprojected

\* C13 (no shared state is mutated): after any lines, the list of known
\* attribute names, with its order, is the one the constructor made of the
\* collection (the collection and the alias table are never assigned).
C13_NoSharedMutation == availableFields = Constructor(customers)

\* C14 (record immutability): no step of a session changes the loaded
\* collection: after every query, projected or not, and after its report the
\* collection holds the same records, in the same order, with the same
\* attribute values.
C14_RecordImmutability == [][customers' = customers]_vars

\* A report has been printed for a projected query that kept some but not all
\* of the records of the collection.
C14_Witness ==
  /\ pc = "printed"
  /\ queryParams.hasSelected
  /\ searchResults.count > 0
  /\ searchResults.count < Len(customers)
  /\ Len(output) > 1

\* What search returns for a record R of the collection under the request.
Returnable(R, params) ==
  IF params.hasSelected THEN Project(R, params.selectedFields) ELSE R

\* The results are made of records of the collection taken at increasing
\* positions.
InCollectionOrder(results, cs, params) ==
  \E at \in [1..Len(results) -> 1..Len(cs)] :
    /\ \A k \in 1..(Len(results) - 1) : at[k] < at[k + 1]
    /\ \A k \in 1..Len(results) : results[k] = Returnable(cs[at[k]], params)

\* The lines of the report that start with the given text, in their order.
LinesWith(start) == SelectSeq(output, LAMBDA l : StartsWith(l, start))

\* The report is out: printed at the prompt, or written by the piped mode.
Reported == pc = "printed" \/ (pc = "exited" /\ mode = "piped")

\* C15 (result order): the records search returns are records of the loaded
\* collection in their relative order there (an order-preserving
\* subsequence), and the report has one detail entry for each of them, headed
\* CUSTOMER 1, CUSTOMER 2, ... and naming the records in the order of the
\* result.
C15_ResultOrder ==
  searchResults.kind = "results" =>
    /\ InCollectionOrder(searchResults.results, customers, queryParams)
    /\ (Reported /\ searchResults.count > 0) =>
         /\ LinesWith("CUSTOMER ") =
              [k \in 1..Len(searchResults.results) |-> "CUSTOMER " \o NatToDigits(k) \o ":"]
         /\ LinesWith("Name: ") =
              [k \in 1..Len(searchResults.results) |->
                 "Name: " \o TextOf(Get(searchResults.results[k], "name"))]

\* A report is out for a query that returned two different records.
C15_Witness ==
  /\ Reported
  /\ searchResults.kind = "results"
  /\ searchResults.count = 2
  /\ Get(searchResults.results[1], "name") # Get(searchResults.results[2], "name")
  /\ Len(LinesWith("CUSTOMER ")) = 2

\* The line of the current input is the exit command in some case.
IsExitLine == ToLowerCase(line) = "exit"

\* C16 (exit): in the interactive and in the piped mode alike, an input line
\* equal to exit in any case ends the session without reaching the parser:
\* nothing is parsed or searched for it and no report is printed.
C16_Exit ==
  IsExitLine =>
    /\ pc = "exited"
    /\ queryParams = NoParams
    /\ searchResults = NoResults
    /\ output = <<"Goodbye!">>

\* The same for the interactive mode alone.
C16_ExitAtThePrompt == mode = "interactive" => C16_Exit

\* C17 (no coercion in the parser): whatever form the parser recognizes in a
\* line, the value of every criterion of its request is a string, the text
\* taken from the line; no value leaves the parser as a number.
C17_NoCoercionInParser ==
  (pc = "search" /\ queryParams.kind = "request")
    => \A k \in 1..Len(queryParams.criteria) : TypeOf(queryParams.criteria[k].value) = "string"

\* The attributes of the detail lines that print one attribute, by the text
\* the line starts with.
DetailLabels ==
  { <<"Name: ", "name">>,
    <<"Coverage: ", "coverage_name">>,
    <<"Coverage Type: ", "coverage_client_type">>,
    <<"Coverage Subtype: ", "coverage_client_subtype">>,
    <<"Branch: ", "branch_description">>,
    <<"Sub-Branch: ", "sub_branch_description">>,
    <<"Tech Client Status: ", "tech_client">>,
    <<"Industry: ", "industry_description">>,
    <<"Sector: ", "sector">>,
    <<"  2024: $", "revenue_2024">>,
    <<"  2023: $", "revenue_2023">>,
    <<"  2022: $", "revenue_2022">>,
    <<"Growth: ", "growth">> }

\* The record has no such attribute.
Absent(customer, attribute) == TypeOf(Get(customer, attribute)) = "undefined"

\* The number of results without a sector.
WithoutSector == Cardinality({k \in 1..Len(searchResults.results) :
                                Absent(searchResults.results[k], "sector")})

\* The position of the first empty line of the report from position p on.
RECURSIVE NextBlank(_)
NextBlank(p) == IF p > Len(output) \/ output[p] = "" THEN p ELSE NextBlank(p + 1)

\* The lines of the sector breakdown: the ones between its heading, the
\* eighth line of a report, and the next empty line.
SectorLines == {output[p] : p \in 9..(NextBlank(9) - 1)}

\* The report of a query that returned records is out.
ReportOut == Reported /\ searchResults.kind = "results" /\ searchResults.count > 0

\* C18 (missing fields in a report): in the report of every matched record,
\* whole or projected, a detail line whose attribute the record lacks shows
\* the placeholder N/A (the location line for a missing city and for a missing
\* state), and the sector breakdown counts the records without a sector under
\* N/A.
C18_MissingFields ==
  ReportOut =>
    /\ \A k \in 1..Len(searchResults.results) :
         /\ \A label \in DetailLabels :
              Absent(searchResults.results[k], label[2])
                => LinesWith(label[1])[k] = label[1] \o "N/A"
         /\ Absent(searchResults.results[k], "city")
              => StartsWith(LinesWith("Location: ")[k], "Location: N/A")
         /\ Absent(searchResults.results[k], "state")
              => EndsWith(LinesWith("Location: ")[k], ", N/A")
    /\ WithoutSector > 0
         => ("N/A: " \o NatToDigits(WithoutSector) \o " customers") \in SectorLines

\* A run starts for the command line of the run that has just failed, less
\* than 24 hours after that run saved its progress.
ResumesAfterFailure ==
  /\ run = "failed"
  /\ run' = "uploading"
  /\ argv' = argv
  /\ Len(argv) = 1
  /\ clock - progressFile.timestamp < 24

\* C19 (resume after failure): a run started within 24 hours of a run that
\* stopped on batch i, failed on all its attempts, begins with batch i, so
\* that batch i and every batch after it are uploaded and, with the batches
\* of the failed run, no batch of the file is skipped.
C19_ResumeAfterFailure ==
  [][ResumesAfterFailure => (startBatch' = batchIndex /\ batchIndex' = batchIndex)]_vars


\* The customer records of one item of a chunk: the item when it is a
\* customer, the customers of a sector entry, none of a city entry.
RecordsOf(item) ==
  IF HasOwn(item, "name") THEN {item}
  ELSE IF HasOwn(item, "customers")
  THEN {Elements(Get(item, "customers"))[k] : k \in 1..Len(Get(item, "customers").o)}
  ELSE {}

\* The customer records in the data of a call to the AI.
HandedRecords(data) ==
  IF data.t = "object" /\ HasOwn(data, "data")
  THEN UNION {RecordsOf(Elements(Get(data, "data"))[k]) : k \in 1..Len(Get(data, "data").o)}
  ELSE {}

\* Attribute F of the customer the record was made from matches V (as the
\* criteria of the query tool match: V is part of the text, whatever the case).
AttributeMatches(record, F, V) ==
  \E k \in 1..Len(analysisData.customers) :
    /\ Get(analysisData.customers[k], "name") = Get(record, "name")
    /\ Includes(ToLowerCase(TextOf(Get(analysisData.customers[k], F))), ToLowerCase(V))

\* parts are the parts of a question of the form analyze:F:V, with or without
\* :question:... behind it.
IsFilteredAnalysis(parts) == Len(parts) >= 3 /\ parts[1] = "analyze"

\* The records of a call for a question with these parts have attribute F
\* matching V.
OnlyMatching(call, parts) ==
  IsFilteredAnalysis(parts)
    => \A record \in HandedRecords(call.data) : AttributeMatches(record, parts[2], parts[3])

\* C20 (filtered AI analysis): for a question of the form analyze:F:V, with
\* or without :question:... behind it, the customer data handed to the AI
\* contains only records whose attribute F matches V.
C20_FilteredAnalysis ==
  \A k \in 1..Len(handed) : OnlyMatching(handed[k], SplitOn(handed[k].question, ":"))


\* The sector values of the records that can be loaded.
SectorValues == {Get(R, "sector").s : R \in {S \in RecordPool : HasOwn(S, "sector")}}

\* The documented line for the sector value X.
SectorLine(X) == "companies in " \o X \o " sector"

\* C21 (documented sector query): for every sector value X, the line
\* `companies in X sector' parses to a request with a non-empty criteria
\* list, and the records returned for it all have a sector that matches X.
C21_SectorQuery ==
  \A X \in SectorValues :
    line = SectorLine(X) =>
      /\ Parsed => (queryParams.kind = "request" /\ Len(queryParams.criteria) > 0)
      /\ Returned =>
           \A k \in 1..Len(searchResults.results) :
              matchesValue(Get(searchResults.results[k], "sector"), JSString(X))


\* The line contains `companies in X coverage' with a phrase X, and ends there.
IsCoverageLine(l) ==
  /\ EndsWith(l, " coverage")
  /\ \E i \in 1..(Len(l) - 22) : MatchesAt(l, i, "companies in ")

\* The position behind the first `companies in ' of such a line.
PhraseStart(l) ==
  13 + CHOOSE i \in 1..Len(l) :
         /\ MatchesAt(l, i, "companies in ")
         /\ \A j \in 1..(i - 1) : ~MatchesAt(l, j, "companies in ")

\* The phrase X of such a line.
CoveragePhrase(l) == Sub(l, PhraseStart(l), Len(l) - 9)

\* C22 (coverage phrasing): for every phrase X, a phrase that contains the
\* word territory or branch included, a line containing `companies in X
\* coverage' parses to a single substring criterion on coverage_name whose
\* value is X.
C22_CoveragePhrasing ==
  (Parsed /\ IsCoverageLine(line))
    => /\ queryParams.kind = "request"
       /\ queryParams.criteria = <<Criterion("coverage_name", JSString(CoveragePhrase(line)), "")>>


\* The breakdowns of a report: the attribute counted and the heading.
Breakdowns ==
  { <<"sector", "Sector Breakdown:">>,
    <<"tech_client", "Tech Client Status:">>,
    <<"industry_description", "Industry Breakdown:">> }

\* The position of a heading in the report.
HeadingAt(heading) == CHOOSE p \in 1..Len(output) : output[p] = heading

\* The lines under a heading, up to the next empty line.
LinesUnder(heading) == SubSeq(output, HeadingAt(heading) + 1, NextBlank(HeadingAt(heading) + 1) - 1)

\* The position of the last `: ' of a breakdown line.
LastColon(l) ==
  CHOOSE i \in 1..Len(l) :
    /\ MatchesAt(l, i, ": ")
    /\ \A j \in (i + 1)..Len(l) : ~MatchesAt(l, j, ": ")

\* The value and the count of the line `<value>: <count> customers'.
ValueOf(l) == Sub(l, 1, LastColon(l) - 1)

CountOf(l) == DigitsToNat(Sub(l, LastColon(l) + 2, Len(l) - 10))

\* The record has a value for the attribute.
Observed(customer, attribute) == Truthy(Get(customer, attribute))

\* The results with the value v for the attribute.
ResultsWith(attribute, v) ==
  {k \in 1..Len(searchResults.results) :
     /\ Observed(searchResults.results[k], attribute)
     /\ TemplateText(Get(searchResults.results[k], attribute)) = v}

\* The values observed for the attribute among the results.
ObservedValues(attribute) ==
  {TemplateText(Get(searchResults.results[k], attribute)) :
     k \in {j \in 1..Len(searchResults.results) : Observed(searchResults.results[j], attribute)}}

\* The position in the result of the first record with the value v.
FirstSeen(attribute, v) ==
  CHOOSE k \in ResultsWith(attribute, v) : \A j \in ResultsWith(attribute, v) : k <= j

RECURSIVE CountsUpTo(_, _)
CountsUpTo(ls, n) == IF n = 0 THEN 0 ELSE CountsUpTo(ls, n - 1) + CountOf(ls[n])

\* The lines ls are a right breakdown of the results by the attribute.
RightBreakdown(ls, attribute) ==
  /\ \A v \in ObservedValues(attribute) :
       /\ Cardinality({p \in 1..Len(ls) : ValueOf(ls[p]) = v}) = 1
       /\ \A p \in 1..Len(ls) :
            ValueOf(ls[p]) = v => CountOf(ls[p]) = Cardinality(ResultsWith(attribute, v))
  /\ CountsUpTo(ls, Len(ls)) = searchResults.count
  /\ \A p \in 1..(Len(ls) - 1) : CountOf(ls[p]) >= CountOf(ls[p + 1])
  /\ \A p, q \in 1..Len(ls) :
       (/\ p < q
        /\ CountOf(ls[p]) = CountOf(ls[q])
        /\ ValueOf(ls[p]) \in ObservedValues(attribute)
        /\ ValueOf(ls[q]) \in ObservedValues(attribute))
         => FirstSeen(attribute, ValueOf(ls[p])) < FirstSeen(attribute, ValueOf(ls[q]))

\* C23 (summary breakdowns): in the sector, the tech-client-status and the
\* industry breakdown of a non-empty report, every distinct value observed
\* among the matched records is listed exactly once with its count, the
\* counts add up to the number of matched records, the lines are in
\* non-increasing order of count, and values with equal counts stand in the
\* order in which they were first seen in the result.
C23_SummaryBreakdowns ==
  ReportOut => \A b \in Breakdowns : RightBreakdown(LinesUnder(b[2]), b[1])


\* The growth of the record is a number: a finite number, or the text of one.
NumericGrowth(customer) ==
  /\ TypeOf(Get(customer, "growth")) \in {"number", "string"}
  /\ Trim(TemplateText(Get(customer, "growth"))) # ""
  /\ ToNumber(Get(customer, "growth")).k = "fin"

\* C24 (growth rendering): in the detail block the growth line of each
\* matched record shows the growth of the record followed by % when that is
\* a number, zero included, and exactly N/A when it is not (missing, or one
\* of the converter's texts N/A and Infinity).
C24_GrowthRendering ==
  ReportOut =>
    \A k \in 1..Len(searchResults.results) :
      LinesWith("Growth: ")[k] =
        (IF NumericGrowth(searchResults.results[k])
         THEN "Growth: " \o TemplateText(Get(searchResults.results[k], "growth")) \o "%"
         ELSE "Growth: N/A")


\* How far the upload of the current file has come: the batch, the attempt
\* at it, and the call of the insert within the attempt.
Position == (batchIndex * 3 + retries) * 4 + retryCount

\* The insert is about to be invoked for the fourth time in a retryOperation
\* call at the most, in the third attempt at the batch at the most.
WithinRetries == AtInsert => (retryCount + 1 <= 4 /\ retries + 1 <= 3)

\* A step of the upload of a file: the batch is now inserted, or the insert
\* is invoked again, or the progress is written and the process has exited
\* after the third attempt.
InsertedOrRetriedOrExited ==
  (AtInsert /\ <<batchIndex, retries, retryCount, run>>' # <<batchIndex, retries, retryCount, run>>)
    => \/ /\ batchIndex' = batchIndex + 1
          /\ <<CurrentFile, batchIndex>> \in table'
          /\ run' = "uploading"
       \/ /\ batchIndex' = batchIndex
          /\ run' = "uploading"
          /\ Position' > Position
       \/ /\ retries + 1 = 3
          /\ run' = "failed"
          /\ progressFile' = SavedProgress(batchIndex, clock)

\* C25 (bounded retries): the upload of a file always ends: the insert is
\* invoked at most 4 times inside one retryOperation call and a batch gets at
\* most 3 attempts, after which the batch has been inserted or the progress
\* has been written and the process has exited; no batch is retried for ever.
C25_BoundedRetries ==
  /\ []WithinRetries
  /\ [][InsertedOrRetriedOrExited]_vars
  /\ (run = "uploading") ~> (run # "uploading")

\* C25, its case: the third attempt at a batch has failed with the fourth
\* call of the insert throwing, the progress is written and the run has ended.
C25_Witness ==
  /\ run = "failed"
  /\ retries + 1 = 3
  /\ retryCount + 1 = 4
  /\ progressFile.present /\ progressFile.lastBatch = batchIndex


RECURSIVE RecordsOfBatches(_)
\* The number of records in the batches bs of the current file.
RecordsOfBatches(bs) ==
  IF bs = {} THEN 0
  ELSE BatchLength(RecordsIn(CurrentFile), CHOOSE b \in bs : TRUE)
       + RecordsOfBatches(bs \ {CHOOSE b \in bs : TRUE})

\* The upload of a file is under way or has ended.
InUpload == run \in {"uploading", "failed", "done"}

\* The batches the insert was called for are startBatch, startBatch + 1, ...
\* in this order.
InIncreasingOrder == \A k \in 1..Len(attempted) : attempted[k] = startBatch + k - 1

\* Every batch before the last one the insert was called for was inserted.
AfterItsPredecessors ==
  \A k \in 1..(Len(attempted) - 1) : attempted[k] \in inserted

\* C26 (upload ordering): within one run the batches of a file are attempted
\* in increasing index order starting at startBatch; batch j is attempted
\* only after every batch from startBatch to j - 1 was inserted
\* successfully; once a batch has failed on its last attempt no later batch
\* is attempted; and at every point successCount is the number of records in
\* the batches inserted successfully.
C26_UploadOrdering ==
  /\ [](InUpload => (/\ InIncreasingOrder
                     /\ AfterItsPredecessors
                     /\ successCount = RecordsOfBatches(inserted)))
  /\ [][(run = "failed" /\ run' = "failed") => attempted' = attempted]_vars

\* C26, its case: the upload of the file of 250 records, resumed at batch 1,
\* has inserted batch 1 and has failed for good on the last batch, the one of
\* 50 records.
C26_Witness ==
  /\ run = "failed"
  /\ CurrentFile = "accounts.csv"
  /\ startBatch = 1
  /\ attempted = <<1, 2>>
  /\ inserted = {1}
  /\ successCount = 100


\* The answers are printed in the order in which their lines were entered.
PrintedInOrder == \A k \in 1..(Len(printed) - 1) : printed[k].line < printed[k + 1].line

\* Every line before the last one entered has its answer printed: the
\* handler of the last one, an exit line included, started after that.
EarlierAnswered == \A n \in 1..(Len(handlers) - 1) : handlers[n].state = "answered"

\* C27 (one question at a time): the handler of a line does not start until
\* the answer to the line before it is printed, so the answers are printed in
\* the order of their questions, and an exit line never ends the process
\* while an earlier question is unanswered, also when several lines arrive
\* at once.
C27_OneQuestionAtATime ==
  /\ PrintedInOrder
  /\ EarlierAnswered


\* A run of the uploader starts.
RunStarts == run # "uploading" /\ run' = "uploading"

\* C28 (no stale resume offset): a run that follows a run in which every
\* batch was inserted successfully, a resumed run included, starts at batch 0
\* whatever its files; a resume offset is applied only when the run right
\* before stopped on a failure.
C28_NoStaleResumeOffset ==
  [][RunStarts => (IF run = "failed" THEN startBatch' >= 0 ELSE startBatch' = 0)]_vars


(***************************************************************************)
(* C29.  History independence.  The collection never changes, so a session *)
(* in which the line is the first one parses it against the list the       *)
(* constructor made, Constructor(customers); the request and the result of *)
(* every session are compared with those of that session.                  *)
(***************************************************************************)

\* The request of the line in a session with no earlier line.
FirstRequest == parseQuery(line, Constructor(customers))

\* The result of the line in a session with no earlier line.
FirstResult == search(FirstRequest, customers, Constructor(customers))

\* C29: for every query line, the request produced by parseQuery and the
\* result produced by search are the same whatever queries were executed
\* earlier in the session: after parseQuery the request is the one the line
\* gives as the first line of a session, and after search so is the result;
\* in particular `show fields' before it never changes the attribute a
\* select token resolves to.
C29_HistoryIndependence ==
  /\ pc = "search" => queryParams = FirstRequest
  /\ pc = "format" => searchResults = FirstResult


(***************************************************************************)
(* C30.  The branch and the coverage criteria and the attribute each is    *)
(* about.                                                                  *)
(***************************************************************************)

\* The text of a value in lower case, the empty text for a missing value.
LowerText(v) == ToLowerCase(JSToString(OrEmpty(v)))

\* X is a case-insensitive substring of the attribute of the record or of the
\* field of its original row.
OwnAttributeHas(customer, attribute, originalField, X) ==
  \/ Includes(LowerText(Get(customer, attribute)), LowerText(X))
  \/ Includes(LowerText(OriginalOf(customer, originalField)), LowerText(X))

\* The record is rightly returned for the criterion.
OnOwnAttribute(customer, criterion) ==
  /\ criterion.field = "branch_description"
       => OwnAttributeHas(customer, "branch_description", "BRNCH_DSCR 1H25", criterion.value)
  /\ criterion.field = "coverage_name"
       => OwnAttributeHas(customer, "coverage_name", "Cov Name 1H25", criterion.value)

====
